---- MODULE Spec2Model ----
(***************************************************************************)
(* Model of the cmdb inventory collector: the reconcile functions          *)
(* insert_or_update_<resource>_data of services/rds_functions.py,          *)
(* athena_functions.py, eks_functions.py and lambda_functions.py, the      *)
(* attribution resolvers get_*_changed_by, the CloudTrail event store of   *)
(* services/cloudtrail_functions.py and the insert phase of script.main    *)
(* and lambda_function.lambda_handler.                                     *)
(***************************************************************************)
EXTENDS Integers, Sequences, FiniteSets, TLC

VARIABLES
    tables,     \* resource type -> bag of stored rows (row -> number of copies)
    changeLog,  \* the change_log table: sequence of ChangeLogEntry
    events,     \* the cloudtrail_events table: bag of event rows
    now,        \* the database clock, NOW(), in seconds
    call,       \* the last reconcile / insert call: arguments, trace and result
    resolved,   \* the last stand-alone attribution resolver call
    cmp,        \* the last stand-alone normalize_list_comparison call
    run,        \* the orchestrator's insert phase
    conns,      \* the database connections: those open, those the last call acquired
    fetched     \* the last get_cloudtrail_events call: arguments and result

vars == <<tables, changeLog, events, now, call, resolved, cmp, run, conns,
          fetched>>

(***************************************************************************)
(* Bounds of the model.                                                    *)
(***************************************************************************)
MaxBatch == 2     \* longest snapshot list passed to one reconcile call
MaxNow == 2       \* number of database calls in one behaviour
MaxList == 2      \* longest list value compared stand-alone
MaxRows == 2      \* most rows a table holds before the call

(***************************************************************************)
(* Python values.  A string is a sequence of tokens (a token is a piece    *)
(* of text never split further: a word, or one of the characters the code  *)
(* looks at: the comma and the blank).  A value carries its type, its      *)
(* text s (scalars) and its elements l (lists of strings).                 *)
(***************************************************************************)
PyStr(s) == [t |-> "str", s |-> s, l |-> <<>>]
PyInt(s) == [t |-> "int", s |-> s, l |-> <<>>]
PyBool(s) == [t |-> "bool", s |-> s, l |-> <<>>]
PyNone == [t |-> "none", s |-> <<"None">>, l |-> <<>>]
PyList(l) == [t |-> "list", s |-> <<>>, l |-> l]

W(word) == PyStr(<<word>>)

\* Tokens in the order Python orders their text (code point order).
TokOrder ==
    <<" ", "'", ",", "0", "1", "None", "True", "[", "]", "a", "b", "c">>

TokRank(tok) == CHOOSE i \in 1..Len(TokOrder) : TokOrder[i] = tok

RECURSIVE JoinRepr(_)
JoinRepr(l) ==
    IF l = <<>> THEN <<>>
    ELSE <<"'">> \o Head(l) \o <<"'">>
         \o (IF Len(l) > 1 THEN <<",", " ">> ELSE <<>>) \o JoinRepr(Tail(l))

\* str(v): the text of a scalar; "['a', 'b']" for a list.
Str(v) == IF v.t = "list" THEN <<"[">> \o JoinRepr(v.l) \o <<"]">> ELSE v.s

\* Python truthiness, `if old_val`.
Truthy(v) ==
    CASE v.t = "list" -> v.l # <<>>
      [] v.t = "str" -> v.s # <<>>
      [] v.t = "int" -> v.s # <<"0">>
      [] v.t = "bool" -> v.s = <<"True">>
      [] OTHER -> FALSE

\* s.split(','): the pieces of s between commas (at least one piece).
RECURSIVE SplitComma(_, _)
SplitComma(s, piece) ==
    IF s = <<>> THEN <<piece>>
    ELSE IF Head(s) = "," THEN <<piece>> \o SplitComma(Tail(s), <<>>)
    ELSE SplitComma(Tail(s), Append(piece, Head(s)))

RECURSIVE LStrip(_)
LStrip(s) == IF s # <<>> /\ Head(s) = " " THEN LStrip(Tail(s)) ELSE s

RECURSIVE RStrip(_)
RStrip(s) ==
    IF s # <<>> /\ s[Len(s)] = " " THEN RStrip(SubSeq(s, 1, Len(s) - 1)) ELSE s

\* str(x).strip()
Strip(s) == RStrip(LStrip(s))

\* a <= b in Python's string order.
RECURSIVE StrLeq(_, _)
StrLeq(a, b) ==
    IF a = <<>> THEN TRUE
    ELSE IF b = <<>> THEN FALSE
    ELSE IF Head(a) = Head(b) THEN StrLeq(Tail(a), Tail(b))
    ELSE TokRank(Head(a)) < TokRank(Head(b))

RECURSIVE InsertSorted(_, _)
InsertSorted(x, l) ==
    IF l = <<>> THEN <<x>>
    ELSE IF StrLeq(x, Head(l)) THEN <<x>> \o l
    ELSE <<Head(l)>> \o InsertSorted(x, Tail(l))

\* The comparison with the sort left out: the stripped elements in list order.
SortedUnsorted(l) == [i \in DOMAIN l |-> Strip(l[i])]

\* sorted([str(x).strip() for x in l])
RECURSIVE Sorted(_)
Sorted(l) ==
    IF l = <<>> THEN <<>> ELSE InsertSorted(Strip(Head(l)), Sorted(Tail(l)))

\* A faulty variant: values that are not lists are compared as they are.
normalize_typed_comparison(old_val, new_val) ==
    IF new_val.t = "list" /\ old_val.t \in {"list", "str"}
    THEN LET old_list ==
                 IF old_val.t = "list" THEN old_val.l
                 ELSE IF Truthy(old_val) THEN SplitComma(Str(old_val), <<>>)
                 ELSE <<>>
         IN  Sorted(old_list) = Sorted(new_val.l)
    ELSE old_val = new_val

normalize_list_comparison(old_val, new_val) ==
    IF new_val.t = "list" /\ old_val.t \in {"list", "str"}
    THEN LET old_list ==
                 IF old_val.t = "list" THEN old_val.l
                 ELSE IF Truthy(old_val) THEN SplitComma(Str(old_val), <<>>)
                 ELSE <<>>
         IN  Sorted(old_list) = Sorted(new_val.l)
    ELSE Str(old_val) = Str(new_val)

(***************************************************************************)
(* Bags: a table is a multiset of rows, row -> number of copies.           *)
(***************************************************************************)
NoRows == [r \in {} |-> 0]

BagAdd(B, r) ==
    IF r \in DOMAIN B THEN [B EXCEPT ![r] = @ + 1]
    ELSE [x \in DOMAIN B \cup {r} |-> IF x = r THEN 1 ELSE B[x]]

RECURSIVE SumOver(_, _)
SumOver(B, S) ==
    IF S = {} THEN 0
    ELSE LET r == CHOOSE x \in S : TRUE IN B[r] + SumOver(B, S \ {r})

BagSize(B) == SumOver(B, DOMAIN B)

\* The bag whose rows are F[r] for the rows r of B (F: row -> row).
BagImage(B, F) ==
    [x \in {F[r] : r \in DOMAIN B} |->
        SumOver(B, {r \in DOMAIN B : F[r] = x})]

(***************************************************************************)
(* Resource types, snapshots and stored rows.                              *)
(***************************************************************************)
Types == {"RDS", "ATHENA", "EKS", "LAMBDA"}

\* The table of each resource type.
TableName(T) ==
    CASE T = "RDS" -> "rds"
      [] T = "ATHENA" -> "athena"
      [] T = "EKS" -> "eks"
      [] T = "LAMBDA" -> "lambda_functions"

\* The snapshot key holding the natural id, and the account id key.
NatKey(T) ==
    CASE T = "RDS" -> "DbInstanceId"
      [] T = "ATHENA" -> "QueryId"
      [] T = "EKS" -> "ClusterName"
      [] T = "LAMBDA" -> "FunctionName"

\* The columns the existing mapping is keyed by.
NatCol(T) ==
    CASE T = "RDS" -> "dbinstanceid"
      [] T = "ATHENA" -> "query_id"
      [] T = "EKS" -> "clustername"
      [] T = "LAMBDA" -> "functionname"

AcctCol(T) == IF T = "ATHENA" THEN "account_id" ELSE "accountid"

\* campos: the columns compared, in the order of the dict, with the snapshot
\* key each is read from.
CamposCols(T) ==
    CASE T = "RDS" ->
             <<<<"accountid", "AccountID">>, <<"dbinstanceid", "DbInstanceId">>,
               <<"enginetype", "EngineType">>, <<"status", "Status">>>>
      [] T = "ATHENA" ->
             <<<<"account_id", "AccountID">>, <<"query_id", "QueryId">>,
               <<"description", "Description">>, <<"owner", "Owner">>>>
      [] T = "EKS" ->
             <<<<"accountid", "AccountID">>, <<"clustername", "ClusterName">>,
               <<"status", "Status">>, <<"addons", "Addons">>>>
      [] T = "LAMBDA" ->
             <<<<"accountid", "AccountID">>, <<"functionname", "FunctionName">>,
               <<"runtime", "Runtime">>, <<"memorysize", "MemorySize">>>>

ColNames(T) == {CamposCols(T)[i][1] : i \in DOMAIN CamposCols(T)}

SnapKeyOf(T, col) ==
    LET i == CHOOSE j \in DOMAIN CamposCols(T) : CamposCols(T)[j][1] = col
    IN  CamposCols(T)[i][2]

\* A faulty variant: the VALUES tuple puts the natural id in the account id column.
RowOfMisplaced(T, s, ts) ==
    [c \in ColNames(T) \cup {"last_updated"} |->
        IF c = "last_updated" THEN ts
        ELSE IF c = AcctCol(T) THEN s[NatKey(T)]
        ELSE s[SnapKeyOf(T, c)]]

\* The row an INSERT stores for snapshot s at time ts.
RowOf(T, s, ts) ==
    [c \in ColNames(T) \cup {"last_updated"} |->
        IF c = "last_updated" THEN ts ELSE s[SnapKeyOf(T, c)]]

\* db_row.get(col): None for a column the row does not have.
Get(row, col) == IF col \in DOMAIN row THEN row[col] ELSE PyNone

KeyOfSnap(T, s) == <<s[NatKey(T)], s["AccountID"]>>
KeyOfRow(T, row) == <<row[NatCol(T)], row[AcctCol(T)]>>

(***************************************************************************)
(* The cloudtrail_events table and the attribution resolvers.              *)
(***************************************************************************)
Unknown == "unknown"

\* FIELD_EVENT_MAP.get(field_name, []) of each resource module.
FIELD_EVENT_MAP(T, field) ==
    CASE T = "RDS" /\ field = "enginetype" -> {"CreateDBInstance"}
      [] T = "RDS" /\ field = "status" ->
             {"StartDBInstance", "StopDBInstance", "RebootDBInstance",
              "CreateDBInstance", "DeleteDBInstance"}
      [] T = "EKS" /\ field = "status" ->
             {"CreateCluster", "DeleteCluster", "UpdateClusterConfig"}
      [] T = "EKS" /\ field = "addons" ->
             {"CreateAddon", "DeleteAddon", "UpdateAddon"}
      [] T = "LAMBDA" /\ field = "runtime" -> {"UpdateFunctionConfiguration"}
      [] T = "LAMBDA" /\ field = "memorysize" -> {"UpdateFunctionConfiguration"}
      [] OTHER -> {}

\* The rows the resolver's SELECT matches: resource name, resource type and,
\* for a mapped field, the event names of the field.
MatchingEvents(T, evs, name, field) ==
    LET possible_events == FIELD_EVENT_MAP(T, field)
    IN  {e \in DOMAIN evs :
            /\ e.resource_name = name
            /\ e.resource_type = T
            /\ (possible_events # {} => e.event_name \in possible_events)}

\* A faulty variant: ORDER BY event_time ASC.
EarliestFirst(S) == {e \in S : \A f \in S : e.event_time <= f.event_time}

\* ORDER BY event_time DESC LIMIT 1: the rows that can come first (rows with
\* equal event_time come in an order the database chooses).
LatestFirst(S) == {e \in S : \A f \in S : e.event_time >= f.event_time}

\* A faulty variant: the query is made without the `if not conn` guard.
get_instance_changed_by_unguarded(evs, connOk, instance_id, field_name) ==
    LET top == LatestFirst(MatchingEvents("RDS", evs, instance_id, field_name))
    IN  IF top = {} THEN {Unknown} ELSE {e.user_name : e \in top}

\* get_instance_changed_by: the values the call can return.
get_instance_changed_by(evs, connOk, instance_id, field_name) ==
    IF ~connOk THEN {Unknown}
    ELSE LET top == LatestFirst(MatchingEvents("RDS", evs, instance_id, field_name))
         IN  IF top = {} THEN {Unknown} ELSE {e.user_name : e \in top}

\* cursor.fetchone(): the next row of a result and the rest of it.
Fetchone(result) ==
    IF result = <<>> THEN [row |-> <<>>, rest |-> <<>>]
    ELSE [row |-> <<Head(result)>>, rest |-> Tail(result)]

\* `cursor.fetchone()[0] if cursor.fetchone() else "unknown"` on a result of
\* at most one row (LIMIT 1): the condition consumes the row, the second
\* fetchone() returns None, None[0] raises and the handler returns "unknown".
FetchTwice(result) ==
    LET first == Fetchone(result)
        second == Fetchone(first.rest)
    IN  IF first.row = <<>> THEN Unknown
        ELSE IF second.row = <<>> THEN Unknown
        ELSE second.row[1].user_name

\* A single fetchone(), as get_instance_changed_by does.
FetchOnce(result) ==
    LET first == Fetchone(result)
    IN  IF first.row = <<>> THEN Unknown ELSE first.row[1].user_name

\* get_cluster_changed_by (T = "EKS") and get_function_changed_by ("LAMBDA").
get_cluster_changed_by(T, evs, connOk, name, field_name) ==
    IF ~connOk THEN {Unknown}
    ELSE LET top == LatestFirst(MatchingEvents(T, evs, name, field_name))
         IN  IF top = {} THEN {FetchTwice(<<>>)}
             ELSE {FetchTwice(<<e>>) : e \in top}

\* A faulty variant: the signed difference, without ABS.
AbsDiffSigned(a, b) == a - b

\* ABS(EXTRACT(EPOCH FROM (event_time - update_date)))
AbsDiff(a, b) == IF a >= b THEN a - b ELSE b - a

DaySeconds == 86400

\* get_query_changed_by: the ATHENA event of the query closest in time to
\* update_date, among those less than a day away.
get_query_changed_by(evs, connOk, query_id, update_date) ==
    IF ~connOk THEN {Unknown}
    ELSE LET near == {e \in DOMAIN evs :
                         /\ e.resource_type = "ATHENA"
                         /\ e.resource_name = query_id
                         /\ AbsDiff(e.event_time, update_date) < DaySeconds}
             top == {e \in near : \A f \in near :
                         AbsDiff(e.event_time, update_date)
                             <= AbsDiff(f.event_time, update_date)}
         IN  IF top = {} THEN {Unknown} ELSE {e.user_name : e \in top}

\* The resolver each reconcile function calls for a differing field.
\* env: the events table, the time and whether the resolver gets a connection.
\* The arguments of the call: the natural id and the name of the column;
\* insert_or_update_athena_data passes datetime.now() as the second.
ResolverArgs(T, env, name, field) ==
    IF T = "ATHENA"
    THEN [resource_id |-> name, second |-> "datetime.now()",
          field_name |-> "", update_date |-> env.ts]
    ELSE [resource_id |-> name, second |-> "field_name",
          field_name |-> field, update_date |-> 0]

\* The resolver of the resource type applied to the arguments.
Resolver(T, env, args) ==
    CASE T = "RDS" ->
             get_instance_changed_by(env.evs, env.resConn, args.resource_id,
                                     args.field_name)
      [] T = "ATHENA" ->
             get_query_changed_by(env.evs, env.resConn, args.resource_id,
                                  args.update_date)
      [] OTHER ->
             get_cluster_changed_by(T, env.evs, env.resConn, args.resource_id,
                                    args.field_name)

ChangedBy(T, env, name, field) ==
    Resolver(T, env, ResolverArgs(T, env, name, field))

(***************************************************************************)
(* The reconcile loop of insert_or_update_<resource>_data.                 *)
(***************************************************************************)
\* existing / existing_data: the dict built from SELECT *, keyed by
\* (natural id, account id).  When several rows share a key the dict keeps
\* the one the SELECT returned last, an order the database chooses.
ExistingMaps(T, B) ==
    LET keys == {KeyOfRow(T, r) : r \in DOMAIN B}
    IN  {f \in [keys -> DOMAIN B] : \A k \in keys : KeyOfRow(T, f[k]) = k}

\* The repaired variant: the identity check reads the columns the table has.
IdentityChangedByColumns(T, db_row, s) ==
    \/ Str(Get(db_row, AcctCol(T))) # Str(s["AccountID"])
    \/ Str(Get(db_row, NatCol(T))) # Str(s[NatKey(T)])

\* "Verificar si cambio el account_id o ..." : the identity check made on a
\* row found in the mapping.
IdentityChanged(T, db_row, s) ==
    CASE T = "RDS" ->
             \/ Str(Get(db_row, "account_id")) # Str(s["AccountID"])
             \/ Str(Get(db_row, "dbinstanceid")) # Str(s["DbInstanceId"])
      [] T = "ATHENA" ->
             \/ Str(Get(db_row, "account_id")) # Str(s["AccountID"])
             \/ Str(Get(db_row, "query_id")) # Str(s["QueryId"])
      [] T = "EKS" ->
             \/ Str(Get(db_row, "accountid")) # Str(s["AccountID"])
             \/ Str(Get(db_row, "clustername")) # Str(s["ClusterName"])
      [] T = "LAMBDA" ->
             \/ Str(Get(db_row, "accountid")) # Str(s["AccountID"])
             \/ Str(Get(db_row, "functionname")) # Str(s["FunctionName"])

\* The columns the comparison loop skips.
SkipCols(T) ==
    CASE T = "RDS" -> {"account_id", "dbinstanceid"}
      [] T = "ATHENA" -> {"account_id", "query_id"}
      [] T = "EKS" -> {"accountid", "clustername"}
      [] T = "LAMBDA" -> {"accountid", "functionname"}

\* The comparison of a stored and an incoming value.
FieldEqual(T, old_val, new_val) ==
    IF T = "ATHENA" THEN Str(old_val) = Str(new_val)
    ELSE normalize_list_comparison(old_val, new_val)

\* A faulty variant: every compared column counts as differing.
DiffsAll(T, db_row, s) ==
    LET Compared(c) == c[1] \notin SkipCols(T)
        d == SelectSeq(CamposCols(T), Compared)
    IN  [i \in DOMAIN d |-> d[i][1]]

\* updates: the columns whose stored value differs, in campos order.
Diffs(T, db_row, s) ==
    LET Differs(c) ==
            /\ c[1] \notin SkipCols(T)
            /\ ~FieldEqual(T, Get(db_row, c[1]), s[c[2]])
        d == SelectSeq(CamposCols(T), Differs)
    IN  [i \in DOMAIN d |-> d[i][1]]

\* Faulty variants: every resource type refreshes last_updated, none does.
AlwaysTouchAll(T) == TRUE

AlwaysTouchNone(T) == FALSE

\* Whether "last_updated = ..." is appended to updates before `if updates`.
AlwaysTouch(T) == T \in {"RDS", "ATHENA"}

\* The WHERE clause of the UPDATE.
UpdateMatches(T, row, s) ==
    CASE T = "RDS" -> row["dbinstanceid"] = s["DbInstanceId"]
      [] T = "ATHENA" ->
             row["query_id"] = s["QueryId"] /\ row["account_id"] = s["AccountID"]
      [] T = "EKS" -> row["clustername"] = s["ClusterName"]
      [] T = "LAMBDA" -> row["functionname"] = s["FunctionName"]

\* A faulty variant: the matching rows are deleted and the snapshot is
\* stored as one new row.
ApplyDeleteInsert(T, B, s, diffs, ts) ==
    BagAdd([r \in {x \in DOMAIN B : ~UpdateMatches(T, x, s)} |-> B[r]],
           RowOf(T, s, ts))

\* UPDATE <table> SET <diffs>, last_updated = NOW() WHERE ...
ApplyUpdate(T, B, s, diffs, ts) ==
    LET cols == {diffs[i] : i \in DOMAIN diffs}
        Upd(r) == [c \in DOMAIN r |->
                      IF c = "last_updated" THEN ts
                      ELSE IF c \in cols THEN s[SnapKeyOf(T, c)]
                      ELSE r[c]]
    IN  BagImage(B, [r \in DOMAIN B |->
                        IF UpdateMatches(T, r, s) THEN Upd(r) ELSE r])

\* The region handed to log_change.
LogRegion(T, s) == IF T = "EKS" THEN W("N/A") ELSE s["Region"]

\* log_change(resource_type, resource_id, field, old, new, actor, account, region)
LogEntry(T, s, db_row, col, actor) ==
    [resource_type |-> T, resource_id |-> s[NatKey(T)], field_name |-> col,
     old_value |-> Get(db_row, col), new_value |-> s[SnapKeyOf(T, col)],
     changed_by |-> actor, account_id |-> s["AccountID"],
     region |-> LogRegion(T, s)]

\* log_change appends one ChangeLogEntry on a connection of its own.
log_change(log, entry) == Append(log, entry)

RECURSIVE LogDiffs(_, _, _, _, _, _, _)
LogDiffs(T, env, s, db_row, diffs, i, log) ==
    IF i > Len(diffs) THEN log
    ELSE LET actors == ChangedBy(T, env, s[NatKey(T)], diffs[i])
             actor == CHOOSE a \in actors : TRUE
         IN  LogDiffs(T, env, s, db_row, diffs, i + 1,
                      log_change(log, LogEntry(T, s, db_row, diffs[i], actor)))

\* The row of an absent key: no columns.
NoRow == [c \in {} |-> PyNone]

\* What the loop body decides for snapshot s against the row db_row found
\* under its key (present) : insert, or the differing columns.
DecideWith(T, s, present, db_row, insert) ==
    [present |-> present, db_row |-> db_row, insert |-> insert,
     diffs |-> IF insert THEN <<>> ELSE Diffs(T, db_row, s)]

DecideRow(T, s, present, db_row) ==
    DecideWith(T, s, present, db_row,
               ~present \/ IdentityChanged(T, db_row, s))

Decide(T, existing, s) ==
    DecideRow(T, s, KeyOfSnap(T, s) \in DOMAIN existing,
              IF KeyOfSnap(T, s) \in DOMAIN existing
              THEN existing[KeyOfSnap(T, s)] ELSE NoRow)

\* The accumulator after the pass: acc.tx is the table as the transaction
\* sees it, acc.log the entries written by log_change, raised is set when
\* the statement of the pass raised.
StepResult(acc, d, update, raises, log, tx, calls) ==
    [tx |-> tx, log |-> log,
     processed |-> acc.processed + 1,
     inserted |-> acc.inserted + (IF d.insert /\ ~raises THEN 1 ELSE 0),
     updated |-> acc.updated + (IF update /\ ~raises THEN 1 ELSE 0),
     raised |-> raises,
     steps |-> Append(acc.steps,
                 [kind |-> IF raises THEN "raise"
                           ELSE IF ~d.present THEN "insert"
                           ELSE IF d.insert THEN "identity_insert"
                           ELSE IF update THEN "update"
                           ELSE "skip",
                  diffs |-> d.diffs, pre |-> acc.tx, post |-> tx,
                  inserted |-> acc.inserted + (IF d.insert /\ ~raises THEN 1 ELSE 0),
                  updated |-> acc.updated + (IF update /\ ~raises THEN 1 ELSE 0),
                  logged |-> SubSeq(log, Len(acc.log) + 1, Len(log)),
                  resolver_calls |->
                      SubSeq(calls, 1, Len(log) - Len(acc.log))])]

\* A faulty variant: the entries are written after the UPDATE statement.
PassLogAfterUpdate(T, env, s, acc, d, raises) ==
    IF d.insert \/ raises THEN acc.log
    ELSE LogDiffs(T, env, s, d.db_row, d.diffs, 1, acc.log)

\* The change log after the loop over campos: one resolver call and one
\* entry per differing column, before the statement of the pass.
PassLog(T, env, s, acc, d, raises) ==
    IF d.insert THEN acc.log
    ELSE LogDiffs(T, env, s, d.db_row, d.diffs, 1, acc.log)

\* The statement of the pass: INSERT, UPDATE or none; it raises when the
\* pass is the one at which the call fails.
Execute(T, env, s, acc, d, update, raises) ==
    StepResult(acc, d, update, raises,
               PassLog(T, env, s, acc, d, raises),
               IF raises THEN acc.tx
               ELSE IF d.insert THEN BagAdd(acc.tx, RowOf(T, s, env.ts))
               ELSE IF update THEN ApplyUpdate(T, acc.tx, s, d.diffs, env.ts)
               ELSE acc.tx,
               [i \in DOMAIN d.diffs |->
                   ResolverArgs(T, env, s[NatKey(T)], d.diffs[i])])

StepWith(T, env, s, i, acc, d) ==
    Execute(T, env, s, acc, d,
            ~d.insert /\ (AlwaysTouch(T) \/ d.diffs # <<>>),
            env.failAt = i
                /\ (d.insert \/ AlwaysTouch(T) \/ d.diffs # <<>>))

\* One pass of `for rds in rds_data:` for the snapshot s = data[i].
ReconcileStep(T, env, existing, s, i, acc) ==
    StepWith(T, env, s, i, acc, Decide(T, existing, s))

RECURSIVE ReconcileLoop(_, _, _, _, _, _)
ReconcileLoop(T, env, existing, data, i, acc) ==
    IF i > Len(data) \/ acc.raised THEN acc
    ELSE ReconcileLoop(T, env, existing, data, i + 1,
                       ReconcileStep(T, env, existing, data[i], i, acc))

(***************************************************************************)
(* Inputs: the snapshots the extractors hand to the reconcile functions.   *)
(***************************************************************************)
Accounts == {W("111"), W("222")}

Snapshots(T) ==
    CASE T = "RDS" ->
             [DbInstanceId : {W("db-1")}, AccountID : Accounts,
              EngineType : {W("postgres")},
              Status : {W("available"), W("stopped")},
              Region : {W("us-east-1")}]
      [] T = "ATHENA" ->
             [QueryId : {W("q-1")}, AccountID : Accounts,
              Description : {W("select 1")},
              Owner : {W("primary"), W("adhoc")},
              Region : {W("us-east-1")}]
      [] T = "EKS" ->
             [ClusterName : {W("c-1")}, AccountID : Accounts,
              Status : {W("ACTIVE")},
              Addons : {PyList(<<<<"a">>, <<"b">>>>), PyList(<<<<"b">>, <<"a">>>>),
                        PyList(<<<<"a">>>>)}]
      [] T = "LAMBDA" ->
             [FunctionName : {W("f-1")}, AccountID : Accounts,
              Runtime : {W("python3.9"), W("python3.12")},
              MemorySize : {PyInt(<<"128">>)},
              Region : {W("us-east-1")}]

RECURSIVE SeqsUpTo(_, _)
SeqsUpTo(S, n) ==
    IF n = 0 THEN {<<>>}
    ELSE LET shorter == SeqsUpTo(S, n - 1)
         IN  shorter \cup {Append(q, x) : q \in shorter, x \in S}

Batches(T) == SeqsUpTo(Snapshots(T), MaxBatch)

\* The events the resolvers read while the reconcile functions run.
StoredEvents ==
    LET ev(id, time, name, user, res, type) ==
            [event_id |-> id, event_time |-> time, event_name |-> name,
             user_name |-> user, resource_name |-> res, resource_type |-> type]
        rows == {ev("e1", 0 - 100, "CreateDBInstance", "bob", W("db-1"), "RDS"),
                 ev("e2", 0 - 10, "StopDBInstance", "alice", W("db-1"), "RDS"),
                 ev("e3", 0 - 20, "CreateCluster", "carol", W("c-1"), "EKS"),
                 ev("e4", 0 - 30, "UpdateFunctionConfiguration", "dave",
                    W("f-1"), "LAMBDA"),
                 ev("e5", 0 - 5, "StartQueryExecution", "erin", W("q-1"), "ATHENA"),
                 ev("e6", 0 - 90000, "StartQueryExecution", "frank", W("q-1"),
                    "ATHENA")}
    IN  [e \in rows |-> 1]

(***************************************************************************)
(* insert_or_update_<resource>_data(data).                                 *)
(***************************************************************************)
NoCall == [fn |-> "none"]
NoResolve == [fn |-> "none"]
NoCmp == [done |-> FALSE]
NoRun == [pc |-> "idle"]
NoConns == [open |-> 0, acquired |-> 0]
NoFetch == [fn |-> "none"]

ErrorResult == [error |-> TRUE, processed |-> 0, inserted |-> 0, updated |-> 0]

\* A faulty variant: the failed call keeps what the transaction wrote.
RollbackKeeps(before, tx) == tx

\* conn.rollback(): the table as it was when the transaction began.
Rollback(before, tx) == before

\* A faulty variant: the commit does not reach the table.
CommitDrops(before, tx) == before

\* conn.commit(): the table as the transaction left it.
Commit(before, tx) == tx

CallRecord(T, data, conn, before, steps, logged, result) ==
    [fn |-> "reconcile", type |-> T, data |-> data, conn |-> conn,
     before |-> before, steps |-> steps, logged |-> logged, result |-> result]

\* The end of the call: commit and the counters, or rollback and the error
\* descriptor; finally the connection is closed.
\* A faulty variant: the except clause returns the counters as they stand.
FinishReportsCounts(T, data, table, log, acc) ==
    [table |-> IF acc.raised THEN Rollback(table, acc.tx)
               ELSE Commit(table, acc.tx),
     log |-> log \o acc.log,
     call |-> CallRecord(T, data, TRUE, table, acc.steps, acc.log,
                 [error |-> acc.raised, processed |-> acc.processed,
                  inserted |-> acc.inserted, updated |-> acc.updated])]

\* conn.commit() and the counters, or conn.rollback() and the error
\* descriptor with its three zeros.
Finish(T, data, table, log, acc) ==
    [table |-> IF acc.raised THEN Rollback(table, acc.tx)
               ELSE Commit(table, acc.tx),
     log |-> log \o acc.log,
     call |-> CallRecord(T, data, TRUE, table, acc.steps, acc.log,
                 IF acc.raised THEN ErrorResult
                 ELSE [error |-> FALSE, processed |-> acc.processed,
                       inserted |-> acc.inserted, updated |-> acc.updated])]

\* The outcome of one call: the table, the change log and the call record.
ReconcileOutcome(T, data, connOk, env, existing, table, log) ==
    IF data = <<>> THEN
        [table |-> table, log |-> log,
         call |-> CallRecord(T, data, FALSE, table, <<>>, <<>>,
                     [error |-> FALSE, processed |-> 0, inserted |-> 0,
                      updated |-> 0])]
    ELSE IF ~connOk THEN
        [table |-> table, log |-> log,
         call |-> CallRecord(T, data, FALSE, table, <<>>, <<>>, ErrorResult)]
    ELSE
        Finish(T, data, table, log,
               ReconcileLoop(T, env, existing, data, 1,
                   [tx |-> table, log |-> <<>>, processed |-> 0,
                    inserted |-> 0, updated |-> 0, raised |-> FALSE,
                    steps |-> <<>>]))

\* get_db_connection() returned a connection: one more is open.
Acquire(open) == open + 1

\* A faulty variant: conn.close() is the last statement of the try block.
CloseOnReturn(open, raised) == IF raised THEN open ELSE open - 1

\* `finally: conn.close()` runs however the try block is left: by its
\* return, or by the return of the except clause after the rollback.
CloseFinally(open, raised) == open - 1

\* One resolver call: `if not conn: return "unknown"` acquires nothing;
\* else the query, which may fail, and conn.close() in the finally clause.
ResolverConns(open, connOk, failed) ==
    IF connOk THEN CloseFinally(Acquire(open), failed) ELSE open

\* The n resolver calls a reconcile call makes, one after the other.
RECURSIVE ResolverCalls(_, _, _)
ResolverCalls(open, connOk, n) ==
    IF n = 0 THEN open
    ELSE ResolverCalls(ResolverConns(open, connOk, FALSE), connOk, n - 1)

\* The connections of a reconcile call: none when the data is empty or
\* get_db_connection() returns None; else its own, closed in the finally
\* clause, and one per resolver call (one resolver call per entry logged).
ReconcileConns(c, rec, resConn) ==
    IF ~rec.conn THEN [open |-> c.open, acquired |-> 0]
    ELSE [open |-> CloseFinally(ResolverCalls(Acquire(c.open), resConn,
                                              Len(rec.logged)),
                                rec.result.error),
          acquired |-> 1 + (IF resConn THEN Len(rec.logged) ELSE 0)]

\* The call's effect on the database and the record of the call.
Effect(T, out, resConn) ==
    /\ tables' = [tables EXCEPT ![T] = out.table]
    /\ changeLog' = out.log
    /\ call' = out.call
    /\ conns' = ReconcileConns(conns, out.call, resConn)

Reconcile(T) ==
    /\ now < MaxNow
    /\ \E data \in Batches(T), connOk \in BOOLEAN, resConn \in BOOLEAN,
          failAt \in 0..MaxBatch, existing \in ExistingMaps(T, tables[T]) :
          /\ failAt <= Len(data)
          /\ ~connOk => (failAt = 0 /\ resConn)
          /\ Effect(T, ReconcileOutcome(T, data, connOk,
                        [evs |-> events, ts |-> now + 1, resConn |-> resConn,
                         failAt |-> failAt],
                        existing, tables[T], changeLog), resConn)
    /\ now' = now + 1
    /\ UNCHANGED <<events, resolved, cmp, run, fetched>>

insert_or_update_rds_data == Reconcile("RDS")
insert_or_update_athena_data == Reconcile("ATHENA")
insert_or_update_eks_data == Reconcile("EKS")
insert_or_update_lambda_data == Reconcile("LAMBDA")

Init ==
    /\ tables = [T \in Types |-> NoRows]
    /\ changeLog = <<>>
    /\ events = StoredEvents
    /\ now = 0
    /\ call = NoCall
    /\ resolved = NoResolve
    /\ cmp = NoCmp
    /\ run = NoRun
    /\ conns = NoConns
    /\ fetched = NoFetch

Next ==
    \/ insert_or_update_rds_data
    \/ insert_or_update_athena_data
    \/ insert_or_update_eks_data
    \/ insert_or_update_lambda_data

Spec == Init /\ [][Next]_vars

(***************************************************************************)
(* One call on a stored table: the table of one resource type holds up to  *)
(* MaxRows rows left by earlier runs (written at time 0), then one         *)
(* reconcile call is made.                                                 *)
(***************************************************************************)
RECURSIVE BagsUpTo(_, _)
BagsUpTo(R, n) ==
    IF n = 0 THEN {NoRows}
    ELSE LET smaller == BagsUpTo(R, n - 1)
         IN  smaller \cup {BagAdd(B, r) : B \in smaller, r \in R}

StoredTables(T) == BagsUpTo({RowOf(T, s, 0) : s \in Snapshots(T)}, MaxRows)

InitCall ==
    /\ \E T \in Types : \E B \in StoredTables(T) :
          tables = [U \in Types |-> IF U = T THEN B ELSE NoRows]
    /\ changeLog = <<>>
    /\ events = StoredEvents
    /\ now = MaxNow - 1
    /\ call = NoCall
    /\ resolved = NoResolve
    /\ cmp = NoCmp
    /\ run = NoRun
    /\ conns = NoConns
    /\ fetched = NoFetch

\* The call is made for the resource type whose table holds the rows.
OnlyStored(T) == \A U \in Types \ {T} : tables[U] = NoRows

NextCall ==
    \/ OnlyStored("RDS") /\ insert_or_update_rds_data
    \/ OnlyStored("ATHENA") /\ insert_or_update_athena_data
    \/ OnlyStored("EKS") /\ insert_or_update_eks_data
    \/ OnlyStored("LAMBDA") /\ insert_or_update_lambda_data

SpecCall == InitCall /\ [][NextCall]_vars

(***************************************************************************)
(* Properties of the reconcile functions.                                  *)
(***************************************************************************)
\* The last call was a reconcile call that committed.
Succeeded == call.fn = "reconcile" /\ call.conn /\ ~call.result.error

\* The last call was a reconcile call in which a statement raised.
Raised ==
    /\ call.fn = "reconcile"
    /\ call.conn
    /\ call.steps # <<>>
    /\ call.steps[Len(call.steps)].kind = "raise"

RowsWithKey(T, B, key) == {r \in DOMAIN B : KeyOfRow(T, r) = key}

CountKey(T, B, key) == SumOver(B, RowsWithKey(T, B, key))

UniqueKeys(T, B) == \A r \in DOMAIN B : CountKey(T, B, KeyOfRow(T, r)) = 1

DistinctKeys(T, data) ==
    \A i, j \in DOMAIN data :
        i # j => KeyOfSnap(T, data[i]) # KeyOfSnap(T, data[j])

Counts(p, i, u) ==
    [error |-> FALSE, processed |-> p, inserted |-> i, updated |-> u]

Db1Available ==
    [DbInstanceId |-> W("db-1"), AccountID |-> W("111"),
     EngineType |-> W("postgres"), Status |-> W("available"),
     Region |-> W("us-east-1")]

Db1Stopped == [Db1Available EXCEPT !["Status"] = W("stopped")]

\* C1: from an empty rds table, reconciling the snapshot (db-1, 111,
\* available, postgres) returns processed 1, inserted 1, updated 0; the next
\* call, with Status stopped, returns processed 1, inserted 0, updated 1,
\* leaves one row for (db-1, 111), with status stopped, and writes exactly
\* one ChangeLogEntry, for the field status.
C1_EndToEnd ==
    /\ (/\ Succeeded
        /\ call.type = "RDS"
        /\ call.data = <<Db1Available>>
        /\ call.before = NoRows)
       => call.result = Counts(1, 1, 0)
    /\ (/\ Succeeded
        /\ call.type = "RDS"
        /\ call.data = <<Db1Stopped>>
        /\ call.before = BagAdd(NoRows, [c \in ColNames("RDS") \cup {"last_updated"} |->
                                IF c = "last_updated" THEN now - 1
                                ELSE Db1Available[SnapKeyOf("RDS", c)]]))
       => /\ call.result = Counts(1, 0, 1)
          /\ CountKey("RDS", tables["RDS"], <<W("db-1"), W("111")>>) = 1
          /\ \A r \in DOMAIN tables["RDS"] : r["status"] = W("stopped")
          /\ Len(call.logged) = 1
          /\ call.logged[1].field_name = "status"

\* C2: a successful reconcile call on a table with at most one row per
\* identity key, given snapshots with pairwise distinct keys, leaves at most
\* one row per identity key (natural id, account id).
C2_OneRowPerKey ==
    (/\ Succeeded
     /\ UniqueKeys(call.type, call.before)
     /\ DistinctKeys(call.type, call.data))
    => UniqueKeys(call.type, tables[call.type])

\* The counters before pass i of the last call.
InsertedBefore(i) == IF i = 1 THEN 0 ELSE call.steps[i - 1].inserted
UpdatedBefore(i) == IF i = 1 THEN 0 ELSE call.steps[i - 1].updated

\* The row r carries the fields of snapshot s, written at the call's time.
Carries(T, r, s) ==
    /\ \A i \in DOMAIN CamposCols(T) :
           r[CamposCols(T)[i][1]] = s[CamposCols(T)[i][2]]
    /\ r["last_updated"] = now

AbsentBefore(T, s) == RowsWithKey(T, call.before, KeyOfSnap(T, s)) = {}

\* C3: for every resource type, a snapshot whose identity key is absent from
\* the table the call loaded makes a successful reconcile insert exactly one
\* row, carrying the snapshot's fields, and count inserted + 1 for it, with
\* no row updated and no ChangeLogEntry written.
C3_AbsentKeyInserted ==
    Succeeded =>
        /\ call.result.inserted = call.steps[Len(call.steps)].inserted
        /\ \A i \in DOMAIN call.data :
               AbsentBefore(call.type, call.data[i]) =>
                   /\ \E r \in DOMAIN call.steps[i].post :
                          /\ Carries(call.type, r, call.data[i])
                          /\ call.steps[i].post = BagAdd(call.steps[i].pre, r)
                   /\ call.steps[i].inserted = InsertedBefore(i) + 1
                   /\ call.steps[i].updated = UpdatedBefore(i)
                   /\ call.steps[i].logged = <<>>

\* C3 witness: a committed call on a non-empty table, two snapshots, one of
\* them with an absent key and one with a stored key.
C3_Witness ==
    /\ Succeeded
    /\ call.before # NoRows
    /\ Len(call.data) = 2
    /\ AbsentBefore(call.type, call.data[2])
    /\ ~AbsentBefore(call.type, call.data[1])

\* The entries of pass i of the last call for column c.
LoggedFor(i, c) ==
    {j \in DOMAIN call.steps[i].logged : call.steps[i].logged[j].field_name = c}

\* C4: for every resource type, when a snapshot's identity key is stored and
\* a non-identity field F of the snapshot differs from the stored value, a
\* successful reconcile writes exactly one ChangeLogEntry for (resource, F),
\* with the stored value as old value and the snapshot's as new value.
C4_OneEntryPerDiff ==
    Succeeded =>
        \A i \in DOMAIN call.data :
            \A r \in RowsWithKey(call.type, call.before,
                                 KeyOfSnap(call.type, call.data[i])) :
                \A c \in ColNames(call.type)
                          \ {NatCol(call.type), AcctCol(call.type)} :
                    (/\ CountKey(call.type, call.before, KeyOfRow(call.type, r)) = 1
                     /\ ~FieldEqual(call.type, r[c],
                                    call.data[i][SnapKeyOf(call.type, c)]))
                    => /\ Cardinality(LoggedFor(i, c)) = 1
                       /\ \A j \in LoggedFor(i, c) :
                              /\ call.steps[i].logged[j].old_value = r[c]
                              /\ call.steps[i].logged[j].new_value
                                     = call.data[i][SnapKeyOf(call.type, c)]

\* C5: when a statement raises during a reconcile call, nothing the call
\* inserted or updated is committed (the table is as it was before the
\* call) and the call returns the error descriptor with processed,
\* inserted and updated 0.
C5_FailedCallRollsBack ==
    Raised => /\ tables[call.type] = call.before
              /\ call.result = ErrorResult

\* C5 witness: the statement of the second snapshot raised after the first
\* snapshot's statement had changed the table inside the transaction.
C5_Witness ==
    /\ Raised
    /\ Len(call.steps) = 2
    /\ call.steps[1].post # call.steps[1].pre

(***************************************************************************)
(* insert_or_update_cloudtrail_events(events) and the stand-alone calls of *)
(* the attribution resolvers, on a stored cloudtrail_events table.         *)
(***************************************************************************)
Event(id, time, name, user, res, type) ==
    [event_id |-> id, event_time |-> time, event_name |-> name,
     user_name |-> user, resource_name |-> res, resource_type |-> type]

\* The normalized events the extractor can hand over.  Two of them carry
\* the same event_id with different contents.
EventDomain ==
    {Event("e1", 1, "StopDBInstance", "alice", W("db-1"), "RDS"),
     Event("e1", 3, "ModifyDBInstance", "bob", W("db-1"), "RDS"),
     Event("e2", 3, "ModifyDBInstance", "bob", W("db-1"), "RDS"),
     Event("e3", 2, "StartDBInstance", "carol", W("db-1"), "RDS"),
     Event("e4", 4, "StopDBInstance", "zed", W("db-2"), "RDS"),
     Event("e5", 1, "CreateCluster", "dave", W("c-1"), "EKS"),
     Event("e6", 2, "UpdateFunctionConfiguration", "erin", W("f-1"), "LAMBDA"),
     Event("e7", 2, "StartQueryExecution", "frank", W("q-1"), "ATHENA"),
     Event("e8", 0 - 90000, "StartQueryExecution", "gina", W("q-1"), "ATHENA")}

UniqueEventIds(B) ==
    \A r \in DOMAIN B :
        B[r] = 1 /\ \A q \in DOMAIN B : q.event_id = r.event_id => q = r

\* The tables earlier runs can have left: event_id is UNIQUE.
StoredEventTables == {B \in BagsUpTo(EventDomain, MaxRows) : UniqueEventIds(B)}

\* A faulty variant: ON CONFLICT (event_id) DO UPDATE, the stored row is replaced.
InsertEventUpsert(tx, e) ==
    BagAdd([r \in {q \in DOMAIN tx : q.event_id # e.event_id} |-> tx[r]], e)

\* INSERT INTO cloudtrail_events ... ON CONFLICT (event_id) DO NOTHING
InsertEvent(tx, e) ==
    IF \E r \in DOMAIN tx : r.event_id = e.event_id THEN tx ELSE BagAdd(tx, e)

\* `for event in events:` with its try/except.  failKind "key": building the
\* parameters of event failAt raises (the event is skipped); "db": its
\* INSERT raises in the database, the transaction is aborted, every later
\* INSERT raises too and the final commit ends the transaction without its
\* rows.
RECURSIVE InsertLoop(_, _, _, _, _)
InsertLoop(data, i, failAt, failKind, acc) ==
    IF i > Len(data) THEN acc
    ELSE IF acc.aborted \/ (failAt = i /\ failKind = "db")
    THEN InsertLoop(data, i + 1, failAt, failKind,
                    [acc EXCEPT !.aborted = TRUE])
    ELSE IF failAt = i
    THEN InsertLoop(data, i + 1, failAt, failKind, acc)
    ELSE InsertLoop(data, i + 1, failAt, failKind,
                    [acc EXCEPT !.tx = InsertEvent(acc.tx, data[i]),
                                !.inserted = acc.inserted + 1])

TrailRecord(data, conn, before, result) ==
    [fn |-> "cloudtrail", data |-> data, conn |-> conn, before |-> before,
     result |-> result]

TrailFinish(data, table, acc) ==
    [table |-> IF acc.aborted THEN Rollback(table, acc.tx)
               ELSE Commit(table, acc.tx),
     call |-> TrailRecord(data, TRUE, table,
                 [keys |-> {"inserted", "updated"}, error |-> FALSE,
                  inserted |-> acc.inserted, updated |-> 0])]

\* failKind "check": the statement before the loop raises, the handler
\* rolls back and returns the error descriptor.
TrailOutcome(data, connOk, failAt, failKind, table) ==
    IF data = <<>> THEN
        [table |-> table,
         call |-> TrailRecord(data, FALSE, table,
                     [keys |-> {"inserted", "updated"}, error |-> FALSE,
                      inserted |-> 0, updated |-> 0])]
    ELSE IF ~connOk THEN
        [table |-> table,
         call |-> TrailRecord(data, FALSE, table,
                     [keys |-> {"error"}, error |-> TRUE,
                      inserted |-> 0, updated |-> 0])]
    ELSE IF failKind = "check" THEN
        [table |-> Rollback(table, table),
         call |-> TrailRecord(data, TRUE, table,
                     [keys |-> {"error", "inserted", "updated"}, error |-> TRUE,
                      inserted |-> 0, updated |-> 0])]
    ELSE TrailFinish(data, table,
             InsertLoop(data, 1, failAt, failKind,
                        [tx |-> table, inserted |-> 0, aborted |-> FALSE]))

\* The connection of insert_or_update_cloudtrail_events: none without
\* events or when get_db_connection() returns None; else cursor.close() and
\* conn.close() in the finally clause.
TrailConns(c, rec) ==
    IF ~rec.conn THEN [open |-> c.open, acquired |-> 0]
    ELSE [open |-> CloseFinally(Acquire(c.open), rec.result.error),
          acquired |-> 1]

TrailEffect(out) ==
    /\ events' = out.table
    /\ call' = out.call
    /\ conns' = TrailConns(conns, out.call)

insert_or_update_cloudtrail_events ==
    /\ now < MaxNow
    /\ \E data \in SeqsUpTo(EventDomain, MaxBatch), connOk \in BOOLEAN,
          failAt \in 0..MaxBatch, failKind \in {"none", "key", "db", "check"} :
          /\ failAt <= Len(data)
          /\ ~connOk => (failAt = 0 /\ failKind = "none")
          /\ (failAt = 0) = (failKind \in {"none", "check"})
          /\ TrailEffect(TrailOutcome(data, connOk, failAt, failKind, events))
    /\ now' = now + 1
    /\ UNCHANGED <<tables, changeLog, resolved, cmp, run, fetched>>

\* A stand-alone resolver call; failed: the query raises and the handler
\* returns "unknown".
Resolve(fn, name, field, connOk, failed, results) ==
    /\ now < MaxNow
    /\ \E r \in (IF failed THEN {Unknown} ELSE results) :
          resolved' = [fn |-> fn, name |-> name, field |-> field,
                       conn |-> connOk, failed |-> failed, result |-> r]
    /\ conns' = [open |-> ResolverConns(conns.open, connOk, failed),
                 acquired |-> IF connOk THEN 1 ELSE 0]
    /\ now' = now + 1
    /\ UNCHANGED <<tables, changeLog, events, call, cmp, run, fetched>>

ResolverFields == {"status", "region"}

GetInstanceChangedBy ==
    \E name \in {W("db-1")}, field \in ResolverFields,
       connOk \in BOOLEAN, failed \in BOOLEAN :
        /\ failed => connOk
        /\ Resolve("get_instance_changed_by", name, field, connOk, failed,
                   get_instance_changed_by(events, connOk, name, field))

GetClusterChangedBy ==
    \E name \in {W("c-1")}, field \in ResolverFields,
       connOk \in BOOLEAN, failed \in BOOLEAN :
        /\ failed => connOk
        /\ Resolve("get_cluster_changed_by", name, field, connOk, failed,
                   get_cluster_changed_by("EKS", events, connOk, name, field))

GetFunctionChangedBy ==
    \E name \in {W("f-1")}, field \in {"runtime", "region"},
       connOk \in BOOLEAN, failed \in BOOLEAN :
        /\ failed => connOk
        /\ Resolve("get_function_changed_by", name, field, connOk, failed,
                   get_cluster_changed_by("LAMBDA", events, connOk, name, field))

\* get_query_changed_by(query_id, update_date) called on its own.
GetQueryChangedBy ==
    /\ now < MaxNow
    /\ \E name \in {W("q-1")}, date \in {1, 3},
          connOk \in BOOLEAN, failed \in BOOLEAN :
          /\ failed => connOk
          /\ \E r \in (IF failed THEN {Unknown}
                        ELSE get_query_changed_by(events, connOk, name, date)) :
                resolved' = [fn |-> "get_query_changed_by", name |-> name,
                             field |-> "", date |-> date, conn |-> connOk,
                             failed |-> failed, result |-> r]
          /\ conns' = [open |-> ResolverConns(conns.open, connOk, failed),
                       acquired |-> IF connOk THEN 1 ELSE 0]
    /\ now' = now + 1
    /\ UNCHANGED <<tables, changeLog, events, call, cmp, run, fetched>>

InitTrail ==
    /\ tables = [T \in Types |-> NoRows]
    /\ changeLog = <<>>
    /\ events \in StoredEventTables
    /\ now = MaxNow - 1
    /\ call = NoCall
    /\ resolved = NoResolve
    /\ cmp = NoCmp
    /\ run = NoRun
    /\ conns = NoConns
    /\ fetched = NoFetch

NextTrail ==
    \/ insert_or_update_cloudtrail_events
    \/ GetInstanceChangedBy
    \/ GetClusterChangedBy
    \/ GetFunctionChangedBy
    \/ GetQueryChangedBy

SpecTrail == InitTrail /\ [][NextTrail]_vars

(***************************************************************************)
(* Properties of the event store and of the resolvers.                     *)
(***************************************************************************)
TrailCalled == call.fn = "cloudtrail"

EventIds(B) == {r.event_id : r \in DOMAIN B}

\* C7: after a call of insert_or_update_cloudtrail_events, whatever its
\* batch (an event_id twice in the batch, or an event_id stored by an
\* earlier batch) and whatever its outcome, the table holds exactly one row
\* per event_id, every row stored before the call is still there unchanged,
\* the call returned a result descriptor, and when no statement failed
\* every event_id of the batch has its row.
C7_EventIdIdempotent ==
    TrailCalled =>
        /\ UniqueEventIds(events)
        /\ \A r \in DOMAIN call.before : r \in DOMAIN events
        /\ call.result.keys \in {{"inserted", "updated"}, {"error"},
                                 {"error", "inserted", "updated"}}
        /\ (~call.result.error /\ call.result.inserted = Len(call.data)) =>
               \A i \in DOMAIN call.data :
                   \E r \in DOMAIN events : r.event_id = call.data[i].event_id

\* A successful call whose batch holds one event_id twice, with different
\* contents, the event_id being stored already with a third row or not.
C7_Witness ==
    /\ TrailCalled
    /\ ~call.result.error
    /\ call.result.inserted = 2
    /\ Len(call.data) = 2
    /\ call.data[1].event_id = call.data[2].event_id
    /\ call.data[1] # call.data[2]
    /\ \E r \in DOMAIN call.before :
          /\ r.event_id = call.data[1].event_id
          /\ r # call.data[1]
          /\ r \in DOMAIN events

\* The events a resolver call of type T selects, stated from the table.
Selected(T) ==
    {e \in DOMAIN events :
        /\ e.resource_name = resolved.name
        /\ e.resource_type = T
        /\ (FIELD_EVENT_MAP(T, resolved.field) # {} =>
               e.event_name \in FIELD_EVENT_MAP(T, resolved.field))}

LatestUsers(S) ==
    {e.user_name : e \in {x \in S : \A y \in S : y.event_time <= x.event_time}}

Answered(fn) == resolved.fn = fn /\ resolved.conn /\ ~resolved.failed

\* C9: with a connection and at least one matching RDS event for the
\* instance, get_instance_changed_by returns the user_name of a matching
\* event of greatest event_time: matching the event names of the field when
\* FIELD_EVENT_MAP has the field, any event of the instance otherwise.
C9_LatestMatchingUser ==
    (Answered("get_instance_changed_by") /\ Selected("RDS") # {}) =>
        resolved.result \in LatestUsers(Selected("RDS"))

\* A mapped field whose latest matching event is older than a later event
\* of the instance that the field does not map.
C9_Witness ==
    /\ Answered("get_instance_changed_by")
    /\ resolved.field = "status"
    /\ resolved.result = "carol"
    /\ \E e \in DOMAIN events :
          /\ e.resource_name = resolved.name
          /\ e.event_time > 2
          /\ e \notin Selected("RDS")

\* C10: with a connection and at least one matching event,
\* get_cluster_changed_by and get_function_changed_by return the user_name
\* of the latest matching event.
C10_LatestMatchingUser ==
    /\ (Answered("get_cluster_changed_by") /\ Selected("EKS") # {}) =>
          resolved.result \in LatestUsers(Selected("EKS"))
    /\ (Answered("get_function_changed_by") /\ Selected("LAMBDA") # {}) =>
          resolved.result \in LatestUsers(Selected("LAMBDA"))

(***************************************************************************)
(* normalize_list_comparison as insert_or_update_eks_data uses it: the     *)
(* clusters table holds one row whose addons column is the list old, and   *)
(* one call is made with the snapshot of the same cluster whose Addons is  *)
(* the list new.                                                           *)
(***************************************************************************)
ListElems == {<<"a">>, <<"b">>, <<" ", "a">>}

Lists == SeqsUpTo(ListElems, MaxList)

ClusterWith(addons) ==
    [ClusterName |-> W("c-1"), AccountID |-> W("111"), Status |-> W("ACTIVE"),
     Addons |-> PyList(addons)]

InitCmp ==
    /\ \E old \in Lists, new \in Lists :
          /\ tables = [T \in Types |->
                          IF T = "EKS"
                          THEN BagAdd(NoRows, RowOf("EKS", ClusterWith(old), 0))
                          ELSE NoRows]
          /\ cmp = [done |-> FALSE, old |-> old, new |-> new]
    /\ changeLog = <<>>
    /\ events = StoredEvents
    /\ now = MaxNow - 1
    /\ call = NoCall
    /\ resolved = NoResolve
    /\ run = NoRun
    /\ conns = NoConns
    /\ fetched = NoFetch

CompareStoredList ==
    /\ now < MaxNow
    /\ ~cmp.done
    /\ \E resConn \in BOOLEAN, existing \in ExistingMaps("EKS", tables["EKS"]) :
          Effect("EKS", ReconcileOutcome("EKS", <<ClusterWith(cmp.new)>>, TRUE,
                            [evs |-> events, ts |-> now + 1,
                             resConn |-> resConn, failAt |-> 0],
                            existing, tables["EKS"], changeLog), resConn)
    /\ cmp' = [done |-> TRUE, old |-> cmp.old, new |-> cmp.new,
               equal |-> normalize_list_comparison(PyList(cmp.old),
                                                   PyList(cmp.new))]
    /\ now' = now + 1
    /\ UNCHANGED <<events, resolved, run, fetched>>

SpecCmp == InitCmp /\ [][CompareStoredList]_vars

Occurrences(l, x) == Cardinality({i \in DOMAIN l : l[i] = x})

IsPermutation(a, b) ==
    /\ Len(a) = Len(b)
    /\ \A x \in ListElems : Occurrences(a, x) = Occurrences(b, x)

\* C8: when the incoming list is a permutation of the stored list (the same
\* elements with the same multiplicities), normalize_list_comparison
\* reports equality and the reconcile call finds no diff for the column,
\* leaves the stored list as it is and writes no ChangeLogEntry for it.
C8_OrderIndependent ==
    (cmp.done /\ IsPermutation(cmp.old, cmp.new)) =>
        /\ cmp.equal
        /\ Succeeded
        /\ \A j \in DOMAIN call.steps[1].diffs :
               call.steps[1].diffs[j] # "addons"
        /\ LoggedFor(1, "addons") = {}
        /\ \A r \in DOMAIN tables["EKS"] : r["addons"] = PyList(cmp.old)

\* The incoming list is the stored list in another order.
C8_Witness ==
    /\ cmp.done
    /\ IsPermutation(cmp.old, cmp.new)
    /\ cmp.old # cmp.new
    /\ call.steps[1].kind = "skip"

(***************************************************************************)
(* The insert phase of script.main and of lambda_handler for the service   *)
(* "rds": the collected snapshots are grouped by (region, credential set)  *)
(* and the insert function is called once per group.                       *)
(***************************************************************************)
\* The data of one group: the snapshots one account's job collected.
GroupData(account) ==
    SeqsUpTo({s \in Snapshots("RDS") : s.AccountID = account}, MaxBatch)
        \ {<<>>}

\* The collection phase and the grouping.  One region is modelled and each
\* job assumes its role anew, so there is one group per account whose job
\* collected data: `left` holds the accounts whose group is still to be
\* inserted.
StartRun ==
    /\ run.pc = "idle"
    /\ \E handler \in {"main", "lambda_handler"}, collected \in SUBSET Accounts :
          run' = [pc |-> "insert", handler |-> handler, left |-> collected,
                  start |-> tables["RDS"], results |-> <<>>]
    /\ UNCHANGED <<tables, changeLog, events, now, call, resolved, cmp, conns,
                 fetched>>

RunEffect(account, out, resConn) ==
    /\ Effect("RDS", out, resConn)
    /\ run' = [run EXCEPT !.left = @ \ {account},
                          !.results = Append(@, out.call.result)]

\* script.main: `res = insert_funcs[s](data)` for the next group.
InsertGroup ==
    /\ run.pc = "insert"
    /\ run.handler = "main"
    /\ now < MaxNow
    /\ \E account \in run.left :
       \E data \in GroupData(account), connOk \in BOOLEAN, resConn \in BOOLEAN,
          failAt \in 0..MaxBatch, existing \in ExistingMaps("RDS", tables["RDS"]) :
          /\ failAt <= Len(data)
          /\ ~connOk => (failAt = 0 /\ resConn)
          /\ RunEffect(account, ReconcileOutcome("RDS", data, connOk,
                    [evs |-> events, ts |-> now + 1,
                     resConn |-> resConn, failAt |-> failAt],
                    existing, tables["RDS"], changeLog), resConn)
    /\ now' = now + 1
    /\ UNCHANGED <<events, resolved, cmp, fetched>>

\* lambda_handler: `insert_func(data_list, region, credentials)` passes
\* three arguments to a function of one parameter: TypeError, which nothing
\* catches, before any statement reaches the database.
InsertGroupLambda ==
    /\ run.pc = "insert"
    /\ run.handler = "lambda_handler"
    /\ run.left # {}
    /\ run' = [run EXCEPT !.pc = "crashed"]
    /\ UNCHANGED <<tables, changeLog, events, now, call, resolved, cmp, conns,
                 fetched>>

FinishRun ==
    /\ run.pc = "insert"
    /\ run.left = {}
    /\ run' = [run EXCEPT !.pc = "done"]
    /\ UNCHANGED <<tables, changeLog, events, now, call, resolved, cmp, conns,
                 fetched>>

InitRun ==
    /\ \E B \in StoredTables("RDS") :
          tables = [T \in Types |-> IF T = "RDS" THEN B ELSE NoRows]
    /\ changeLog = <<>>
    /\ events = StoredEvents
    /\ now = 0
    /\ call = NoCall
    /\ resolved = NoResolve
    /\ cmp = NoCmp
    /\ run = NoRun
    /\ conns = NoConns
    /\ fetched = NoFetch

NextRun ==
    \/ StartRun
    \/ InsertGroup
    \/ InsertGroupLambda
    \/ FinishRun

SpecRun == InitRun /\ [][NextRun]_vars

RunEnded == run.pc \in {"done", "crashed"}

SomeFailed == \E i \in DOMAIN run.results : run.results[i].error

RECURSIVE SumInserted(_)
SumInserted(results) ==
    IF results = <<>> THEN 0
    ELSE (IF Head(results).error THEN 0 ELSE Head(results).inserted)
         + SumInserted(Tail(results))

\* C6 as stated: when a reconcile call of the run failed, no change the run
\* made to the table of the resource type remains.
C6_SingleTransactionPerRun ==
    (RunEnded /\ SomeFailed) => tables["RDS"] = run.start

\* C6 amended: every reconcile call of a run is a transaction of its own.
\* A failed call leaves no row of its own, the rows inserted by the run's
\* successful calls remain (the table holds the rows it held when the run
\* began and one row per insert the successful calls report), and a run
\* whose calls all failed leaves the table as it was.
C6_TransactionPerCall ==
    run.pc # "idle" =>
        /\ BagSize(tables["RDS"]) = BagSize(run.start) + SumInserted(run.results)
        /\ (\A i \in DOMAIN run.results : run.results[i].error) =>
               tables["RDS"] = run.start

\* A run whose first group was committed and whose second group failed
\* after its first statement.
C6_Witness ==
    /\ run.pc = "done"
    /\ Len(run.results) = 2
    /\ ~run.results[1].error
    /\ run.results[1].inserted > 0
    /\ run.results[2].error
    /\ Raised
    /\ Len(call.steps) = 2
    /\ tables["RDS"] # run.start

(***************************************************************************)
(* Properties of the resolvers' sentinel and of the Athena attribution.    *)
(***************************************************************************)
\* The ATHENA events of the query less than a day away from the date.
NearEvents(evs, name, date) ==
    {e \in DOMAIN evs :
        /\ e.resource_type = "ATHENA"
        /\ e.resource_name = name
        /\ e.event_time - date < DaySeconds
        /\ date - e.event_time < DaySeconds}

\* No stored event matches the resolver call made.
NothingMatches ==
    CASE resolved.fn = "get_instance_changed_by" -> Selected("RDS") = {}
      [] resolved.fn = "get_cluster_changed_by" -> Selected("EKS") = {}
      [] resolved.fn = "get_function_changed_by" -> Selected("LAMBDA") = {}
      [] resolved.fn = "get_query_changed_by" ->
             NearEvents(events, resolved.name, resolved.date) = {}
      [] OTHER -> FALSE

\* C11: each of the four resolvers returns "unknown" (it returns a value,
\* it does not raise) when it gets no database connection, when no stored
\* event matches and when its query fails.
C11_UnknownSentinel ==
    (resolved.fn # "none" /\ (~resolved.conn \/ resolved.failed \/ NothingMatches))
        => resolved.result = "unknown"

\* The RDS resolver called without a connection while a matching event is
\* stored.
C11_Witness ==
    /\ resolved.fn = "get_instance_changed_by"
    /\ ~resolved.conn
    /\ Selected("RDS") # {}
    /\ resolved.result = "unknown"

(***************************************************************************)
(* One call of insert_or_update_athena_data on a stored athena table, the  *)
(* cloudtrail_events table holding up to MaxRows ATHENA events.            *)
(***************************************************************************)
AthenaEvents ==
    {Event("a1", 0 - 5, "StartQueryExecution", "erin", W("q-1"), "ATHENA"),
     Event("a2", 0 - 86399, "StartQueryExecution", "frank", W("q-1"), "ATHENA"),
     Event("a3", 50, "StartQueryExecution", "gina", W("q-1"), "ATHENA"),
     Event("a4", 1, "StartQueryExecution", "hank", W("q-2"), "ATHENA")}

InitAthena ==
    /\ \E B \in StoredTables("ATHENA") :
          tables = [T \in Types |-> IF T = "ATHENA" THEN B ELSE NoRows]
    /\ events \in {E \in BagsUpTo(AthenaEvents, MaxRows) : UniqueEventIds(E)}
    /\ changeLog = <<>>
    /\ now = MaxNow - 1
    /\ call = NoCall
    /\ resolved = NoResolve
    /\ cmp = NoCmp
    /\ run = NoRun
    /\ conns = NoConns
    /\ fetched = NoFetch

\* The call; resolved records whether get_query_changed_by, which the call
\* makes for every differing field, got its connection.
ReconcileAthena ==
    /\ now < MaxNow
    /\ \E data \in Batches("ATHENA"), connOk \in BOOLEAN, resConn \in BOOLEAN,
          failAt \in 0..MaxBatch, existing \in ExistingMaps("ATHENA", tables["ATHENA"]) :
          /\ failAt <= Len(data)
          /\ ~connOk => (failAt = 0 /\ resConn)
          /\ Effect("ATHENA", ReconcileOutcome("ATHENA", data, connOk,
                        [evs |-> events, ts |-> now + 1, resConn |-> resConn,
                         failAt |-> failAt],
                        existing, tables["ATHENA"], changeLog), resConn)
          /\ resolved' = [fn |-> "get_query_changed_by", conn |-> resConn]
    /\ now' = now + 1
    /\ UNCHANGED <<events, cmp, run, fetched>>

SpecAthena == InitAthena /\ [][ReconcileAthena]_vars

\* The actors of the events of S closest in time to the date.
ClosestUsers(S, date) ==
    {e.user_name : e \in
        {x \in S : \A y \in S :
            \/ (x.event_time >= date /\ y.event_time >= date
                   /\ x.event_time <= y.event_time)
            \/ (x.event_time >= date /\ y.event_time < date
                   /\ x.event_time - date <= date - y.event_time)
            \/ (x.event_time < date /\ y.event_time >= date
                   /\ date - x.event_time <= y.event_time - date)
            \/ (x.event_time < date /\ y.event_time < date
                   /\ x.event_time >= y.event_time)}}

\* The entries pass i of the last call wrote are attributed as the update
\* time `date` of the record requires.
AttributedAt(i, date) ==
    \A j \in DOMAIN call.steps[i].logged :
        IF NearEvents(events, call.data[i]["QueryId"], date) = {}
        THEN call.steps[i].logged[j].changed_by = "unknown"
        ELSE call.steps[i].logged[j].changed_by
                 \in ClosestUsers(NearEvents(events, call.data[i]["QueryId"],
                                             date), date)

NothingNew(i, r) ==
    /\ r \in RowsWithKey(call.type, call.before,
                          KeyOfSnap(call.type, call.data[i]))
    /\ CountKey(call.type, call.before, KeyOfRow(call.type, r)) = 1
    /\ r \in DOMAIN call.steps[i].pre
    /\ CountKey(call.type, call.steps[i].pre, KeyOfRow(call.type, r)) = 1
    /\ \A c \in ColNames(call.type) \ {NatCol(call.type), AcctCol(call.type)} :
           FieldEqual(call.type, r[c], call.data[i][SnapKeyOf(call.type, c)])

Touched(r) == [r EXCEPT !["last_updated"] = now]

\* Pass i made one UPDATE that changed last_updated of row r and nothing
\* else, inserted no row and wrote no ChangeLogEntry.
OnlyRefreshed(i, r) ==
    /\ call.steps[i].kind = "update"
    /\ DOMAIN call.steps[i].post = (DOMAIN call.steps[i].pre \ {r}) \cup {Touched(r)}
    /\ call.steps[i].post[Touched(r)] = 1
    /\ \A q \in DOMAIN call.steps[i].pre \ {r} :
           call.steps[i].post[q] = call.steps[i].pre[q]
    /\ call.steps[i].updated = UpdatedBefore(i) + 1
    /\ call.steps[i].inserted = InsertedBefore(i)
    /\ call.steps[i].logged = <<>>

\* C13: for EKS and Lambda, a snapshot whose key is stored and whose
\* non-identity fields all compare equal to the stored row causes no UPDATE:
\* the table, last_updated of the row included, is as before the pass,
\* updated is not incremented and no ChangeLogEntry is written.
C13_NoOpWhenEqual ==
    (Succeeded /\ call.type \in {"EKS", "LAMBDA"}) =>
        \A i \in DOMAIN call.data :
            \A r \in DOMAIN call.before :
                NothingNew(i, r) =>
                    /\ call.steps[i].kind = "skip"
                    /\ call.steps[i].post = call.steps[i].pre
                    /\ call.steps[i].updated = UpdatedBefore(i)
                    /\ call.steps[i].inserted = InsertedBefore(i)
                    /\ call.steps[i].logged = <<>>

\* An EKS snapshot whose Addons is the stored list in another order: the
\* row is stored after the call as it was, with its old last_updated.
C13_Witness ==
    /\ Succeeded
    /\ call.type = "EKS"
    /\ Len(call.data) = 1
    /\ \E r \in DOMAIN call.before :
          /\ NothingNew(1, r)
          /\ r["addons"] # call.data[1]["Addons"]
          /\ r \in DOMAIN tables["EKS"]
          /\ r["last_updated"] < now

\* C14: for Athena, a snapshot whose key is stored and whose non-identity
\* fields all compare equal causes exactly one UPDATE of the existing row
\* that changes only last_updated: no other column and no other row
\* changes, no row is inserted, no ChangeLogEntry is written and updated is
\* incremented by 1.
C14_AthenaRefreshOnly ==
    (Succeeded /\ call.type = "ATHENA") =>
        \A i \in DOMAIN call.data :
            \A r \in DOMAIN call.before :
                NothingNew(i, r) => OnlyRefreshed(i, r)

\* An Athena snapshot equal to one of the two stored rows: that row is
\* stored after the call with the new last_updated.
C14_Witness ==
    /\ Succeeded
    /\ call.type = "ATHENA"
    /\ BagSize(call.before) = 2
    /\ \E r \in DOMAIN call.before :
          /\ NothingNew(1, r)
          /\ Touched(r) \in DOMAIN tables["ATHENA"]
          /\ r \notin DOMAIN tables["ATHENA"]
    /\ call.result = Counts(1, 0, 1)

\* Pass i made one UPDATE that gave row r the new last_updated, inserted no
\* row and wrote no ChangeLogEntry.
Refreshed(i, r) ==
    /\ call.steps[i].kind = "update"
    /\ Touched(r) \in DOMAIN call.steps[i].post
    /\ r \notin DOMAIN call.steps[i].post
    /\ BagSize(call.steps[i].post) = BagSize(call.steps[i].pre)
    /\ call.steps[i].updated = UpdatedBefore(i) + 1
    /\ call.steps[i].inserted = InsertedBefore(i)
    /\ call.steps[i].logged = <<>>

\* C15: for RDS, a snapshot whose key is stored and none of whose fields
\* differ from the stored row refreshes last_updated of that row (one
\* UPDATE, updated + 1), inserts no row and writes no ChangeLogEntry.
C15_RdsRefreshOnly ==
    (Succeeded /\ call.type = "RDS") =>
        \A i \in DOMAIN call.data :
            \A r \in DOMAIN call.before :
                NothingNew(i, r) => Refreshed(i, r)

(***************************************************************************)
(* A whole run of script.main or of lambda_function.lambda_handler for the *)
(* services "rds" and CloudTrail events ("rds_cloudtrail" in main,         *)
(* "cloudtrail_events" in lambda_handler), one region: the units are the   *)
(* accounts.  Each unit is processed by process_account_region, the        *)
(* results are collected in completion order, then the insert functions    *)
(* are called per service and per group.                                   *)
(***************************************************************************)
RunRegion == W("us-east-1")

\* What the provider returns to a unit when its extraction succeeds.
UnitRecords(service, account) ==
    IF service = "rds"
    THEN <<[DbInstanceId |-> W("db-1"), AccountID |-> account,
            EngineType |-> W("postgres"), Status |-> W("available"),
            Region |-> RunRegion]>>
    ELSE IF account = W("111")
    THEN <<Event("e1", 1, "StopDBInstance", "alice", W("db-1"), "RDS")>>
    ELSE <<Event("e1", 3, "ModifyDBInstance", "bob", W("db-1"), "RDS"),
           Event("e2", 3, "ModifyDBInstance", "bob", W("db-1"), "RDS")>>

\* The outcomes of one extraction: records, no records, a ClientError (or,
\* for CloudTrail, any exception) that the extractor catches and turns into
\* an empty list, and for get_rds_instances an exception that is not a
\* ClientError, which the extractor lets through.
ExtractOutcomes(service) ==
    IF service = "rds" THEN {"records", "empty", "client_error", "raise"}
    ELSE {"records", "empty", "client_error"}

Extracted(service, account, outcome) ==
    IF outcome = "records" THEN UnitRecords(service, account) ELSE <<>>

\* The services of the run, in the order of the `services` argument.
RunServices == <<"rds", "cloudtrail">>

\* The wall-clock budget of a unit in script.process_account_region, in
\* seconds, and the times assume_role or one extraction can take.
UnitTimeout == 300

Durations == {100, 301}

\* A faulty variant: the budget is never found exceeded.
ExpiredNever(elapsed) == FALSE

\* (datetime.now() - start).total_seconds() > 300
Expired(elapsed) == elapsed > UnitTimeout

\* `for service in services:` of script.process_account_region from the
\* i-th service on, `elapsed` seconds after the unit started: the check of
\* the budget, `break` when it is exceeded, else the extraction in a try of
\* its own (an exception leaves the service without a key in the result).
\* checks: the elapsed time read at each check made.
RECURSIVE ServiceLoop(_, _, _, _, _, _)
ServiceLoop(account, out, dur, i, elapsed, result) ==
    IF i > Len(RunServices) THEN result
    ELSE IF Expired(elapsed)
    THEN [result EXCEPT !.checks = Append(@, elapsed)]
    ELSE ServiceLoop(account, out, dur, i + 1, elapsed + dur[RunServices[i]],
             [result EXCEPT
                 !.checks = Append(@, elapsed),
                 !.started = @ \cup {RunServices[i]},
                 !.data = [@ EXCEPT ![RunServices[i]] =
                              Extracted(RunServices[i], account,
                                        out[RunServices[i]])]])

\* script.process_account_region: `start` is read before assume_role.
MainUnit(account, role, out, dur) ==
    IF role = "client_error"
    THEN [account_id |-> account, region |-> RunRegion, error |-> TRUE]
    ELSE ServiceLoop(account, out, dur, 1, dur["role"],
             [account_id |-> account, region |-> RunRegion, error |-> FALSE,
              data |-> [sv \in {"rds", "cloudtrail"} |-> <<>>],
              started |-> {}, checks |-> <<>>])

\* lambda_function.process_account_region: one try around all services,
\* and no budget.
LambdaUnit(account, role, out) ==
    IF role = "client_error" \/ \E sv \in DOMAIN out : out[sv] = "raise"
    THEN [account_id |-> account, region |-> RunRegion, error |-> TRUE]
    ELSE [account_id |-> account, region |-> RunRegion, error |-> FALSE,
          data |-> [sv \in {"rds", "cloudtrail"} |->
                       Extracted(sv, account, out[sv])],
          started |-> {"rds", "cloudtrail"}, checks |-> <<>>]

process_account_region(handler, account, role, out, dur) ==
    IF handler = "main" THEN MainUnit(account, role, out, dur)
    ELSE LambdaUnit(account, role, out)

\* What happened to each service of the unit: the outcome of its
\* extraction, or "not_started" when the loop was left before it.
Happened(res, out) ==
    IF res.error THEN out
    ELSE [sv \in DOMAIN out |->
             IF sv \in res.started THEN out[sv] ELSE "not_started"]

\* collected_data[s].extend(...) and grouped.setdefault(key, []): a unit
\* with records for the service adds a group of its own.
AddGroup(groups, service, res) ==
    IF res.data[service] = <<>> THEN groups
    ELSE Append(groups, [service |-> service, unit |-> res.account_id,
                         data |-> res.data[service]])

\* The loop body over as_completed(futures) for the result res.
Collect(r, res, role, out) ==
    IF res.error
    THEN [r EXCEPT !.pending = @ \ {res.account_id},
                   !.units = [@ EXCEPT ![res.account_id] =
                                 [role |-> role, out |-> out, checks |-> <<>>]],
                   !.errors = [@ EXCEPT ![res.account_id] =
                                  Append(@, res.region)]]
    ELSE [r EXCEPT !.pending = @ \ {res.account_id},
                   !.units = [@ EXCEPT ![res.account_id] =
                                 [role |-> role, out |-> Happened(res, out),
                                  checks |-> res.checks]],
                   !.collected = [sv \in {"rds", "cloudtrail"} |->
                                     AddGroup(@[sv], sv, res)]]

NotRun ==
    [role |-> "none", out |-> [sv \in {"rds", "cloudtrail"} |-> "none"],
     checks |-> <<>>]

StartOrch ==
    /\ run.pc = "idle"
    /\ \E handler \in {"main", "lambda_handler"} :
          run' = [pc |-> "collect", handler |-> handler, pending |-> Accounts,
                  units |-> [a \in Accounts |-> NotRun],
                  errors |-> [a \in Accounts |-> <<>>],
                  collected |-> [sv \in {"rds", "cloudtrail"} |-> <<>>],
                  queue |-> <<>>, total |-> 0, results |-> <<>>]
    /\ UNCHANGED <<tables, changeLog, events, now, call, resolved, cmp, conns,
                 fetched>>

\* One future completes and its result is collected.
ProcessUnit ==
    /\ run.pc = "collect"
    /\ \E account \in run.pending, role \in {"ok", "client_error"},
          out \in [{"rds", "cloudtrail"} -> {"records", "empty", "client_error", "raise"}],
          dur \in [{"role", "rds", "cloudtrail"} -> Durations] :
          /\ \A sv \in DOMAIN out : out[sv] \in ExtractOutcomes(sv)
          /\ role = "client_error" => \A sv \in DOMAIN out : out[sv] = "empty"
          /\ (role = "client_error" \/ run.handler = "lambda_handler") =>
                 \A x \in DOMAIN dur : dur[x] = 100
          /\ run' = Collect(run, process_account_region(run.handler, account,
                                                        role, out, dur),
                            role, out)
    /\ UNCHANGED <<tables, changeLog, events, now, call, resolved, cmp, conns,
                 fetched>>

\* A faulty variant: the insert phase begins once one future has completed.
AllCompletedFirst(pending) == pending # Accounts

\* The loop over as_completed(futures) ends, and the `with` block of the
\* executor is left, when every future has completed.
AllCompleted(pending) == pending = {}

\* All futures are done: the groups of each service, service by service.
StartInserts ==
    /\ run.pc = "collect"
    /\ AllCompleted(run.pending)
    /\ run' = [run EXCEPT !.pc = "insert",
                          !.queue = run.collected["rds"] \o run.collected["cloudtrail"],
                          !.total = Len(run.collected["rds"])
                                    + Len(run.collected["cloudtrail"])]
    /\ UNCHANGED <<tables, changeLog, events, now, call, resolved, cmp, conns,
                 fetched>>

\* A faulty variant: the first error descriptor ends the insert phase.
AfterCallStops(queue, result) == IF result.error THEN <<>> ELSE Tail(queue)

\* The insert loops go on to the next group whatever the descriptor says.
AfterCall(queue, result) == Tail(queue)

OrchEffect(group, out) ==
    /\ call' = out.call
    /\ run' = [run EXCEPT !.queue = AfterCall(@, out.call.result),
                          !.results = Append(@, [service |-> group.service,
                                                  unit |-> group.unit,
                                                  fn |-> out.call.fn,
                                                  data |-> out.call.data,
                                                  result |-> out.call.result])]

RdsEffect(group, out, resConn) ==
    /\ tables' = [tables EXCEPT !["RDS"] = out.table]
    /\ changeLog' = out.log
    /\ events' = events
    /\ conns' = ReconcileConns(conns, out.call, resConn)
    /\ OrchEffect(group, out)

EventsEffect(group, out) ==
    /\ events' = out.table
    /\ conns' = TrailConns(conns, out.call)
    /\ UNCHANGED <<tables, changeLog>>
    /\ OrchEffect(group, out)

\* script.main: `res = insert_funcs[s](data)` for the next group.
InsertNext ==
    /\ run.pc = "insert"
    /\ run.handler = "main"
    /\ run.queue # <<>>
    /\ \/ /\ Head(run.queue).service = "rds"
          /\ \E connOk \in BOOLEAN, resConn \in BOOLEAN, failAt \in 0..1,
                existing \in ExistingMaps("RDS", tables["RDS"]) :
                /\ ~connOk => (failAt = 0 /\ resConn)
                /\ RdsEffect(Head(run.queue),
                       ReconcileOutcome("RDS", Head(run.queue).data, connOk,
                           [evs |-> events, ts |-> now + 1,
                            resConn |-> resConn, failAt |-> failAt],
                           existing, tables["RDS"], changeLog), resConn)
       \/ /\ Head(run.queue).service = "cloudtrail"
          /\ \E connOk \in BOOLEAN, failAt \in 0..1,
                failKind \in {"none", "key", "db", "check"} :
                /\ ~connOk => (failAt = 0 /\ failKind = "none")
                /\ (failAt = 0) = (failKind \in {"none", "check"})
                /\ EventsEffect(Head(run.queue),
                       TrailOutcome(Head(run.queue).data, connOk, failAt,
                                    failKind, events))
    /\ now' = now + 1
    /\ UNCHANGED <<resolved, cmp, fetched>>

\* lambda_handler: `insert_func(data_list, region, credentials)` on
\* insert_or_update_rds_data(rds_data) or
\* insert_or_update_cloudtrail_events(events): TypeError, not caught.
InsertNextLambda ==
    /\ run.pc = "insert"
    /\ run.handler = "lambda_handler"
    /\ run.queue # <<>>
    /\ run' = [run EXCEPT !.pc = "crashed"]
    /\ UNCHANGED <<tables, changeLog, events, now, call, resolved, cmp, conns,
                 fetched>>

\* The summary is printed (main) or returned (lambda_handler).
FinishOrch ==
    /\ run.pc = "insert"
    /\ run.queue = <<>>
    /\ run' = [run EXCEPT !.pc = "done"]
    /\ UNCHANGED <<tables, changeLog, events, now, call, resolved, cmp, conns,
                 fetched>>

InitOrch ==
    /\ tables = [T \in Types |-> NoRows]
    /\ changeLog = <<>>
    /\ events = NoRows
    /\ now = 0
    /\ call = NoCall
    /\ resolved = NoResolve
    /\ cmp = NoCmp
    /\ run = NoRun
    /\ conns = NoConns
    /\ fetched = NoFetch

NextOrch ==
    \/ StartOrch
    \/ ProcessUnit
    \/ StartInserts
    \/ InsertNext
    \/ InsertNextLambda
    \/ FinishOrch

SpecOrch == InitOrch /\ [][NextOrch]_vars

(***************************************************************************)
(* Properties of a whole run.                                              *)
(***************************************************************************)
OrchEnded == run.pc \in {"done", "crashed"}

Collected == run.pc \in {"insert", "done", "crashed"}

RoleFailed(u) == run.units[u].role = "client_error"

GroupsOf(u, service) ==
    {k \in DOMAIN run.collected[service] : run.collected[service][k].unit = u}

CallsFor(u, service) ==
    {k \in DOMAIN run.results :
        run.results[k].unit = u /\ run.results[k].service = service}

\* C16: whatever the role assumptions, the extractions and the database
\* calls do, the run of main or of lambda_handler ends with its summary:
\* no exception leaves the entry point.
C16_NoExceptionPropagates == run.pc # "crashed"

\* C17: when the role assumption of a unit fails, that unit contributes no
\* records to any service and its account's error list receives the
\* failure tagged with the region, while every other unit is extracted and
\* the records it extracted are reconciled.
C17_RoleFailureAbortsOneUnit ==
    OrchEnded =>
        \A u \in Accounts :
            RoleFailed(u) =>
                /\ \A sv \in {"rds", "cloudtrail"} : GroupsOf(u, sv) = {}
                /\ run.errors[u] = <<RunRegion>>
                /\ \A v \in Accounts \ {u} :
                       /\ run.units[v].role # "none"
                       /\ \A sv \in {"rds", "cloudtrail"} :
                              (~RoleFailed(v) /\ run.units[v].out[sv] = "records"
                               /\ \A x \in {"rds", "cloudtrail"} :
                                      run.units[v].out[x] # "raise")
                              => CallsFor(v, sv) # {}

\* C18: a provider failure while one service of a unit is extracted leaves
\* that service of the unit without records and nothing else: the unit is
\* not in the error list, and the records of its other services are
\* collected and, when the run has ended, reconciled.
C18_ExtractionFailureDegrades ==
    Collected =>
        \A u \in Accounts : \A sv \in {"rds", "cloudtrail"} :
            (~RoleFailed(u) /\ run.units[u].out[sv] \in {"client_error", "raise"}) =>
                /\ GroupsOf(u, sv) = {}
                /\ run.errors[u] = <<>>
                /\ \A x \in {"rds", "cloudtrail"} \ {sv} :
                       run.units[u].out[x] = "records" =>
                           /\ GroupsOf(u, x) # {}
                           /\ run.pc = "done" => CallsFor(u, x) # {}

\* The step is a call of an insert function that returned an error
\* descriptor.
FailedCallStep ==
    /\ run.pc = "insert"
    /\ run'.results # run.results
    /\ call'.result.error

\* C19: a reconcile call that returns an error descriptor changes no table
\* (its own is rolled back, those of the other resource types are not
\* touched) and the insert phase goes on: the remaining groups stay
\* queued, every group gets its call before the run ends, and the groups
\* whose call succeeded have their rows committed.
C19_FailureIsIsolated ==
    /\ [][FailedCallStep =>
             /\ tables' = tables
             /\ events' = events
             /\ run'.pc = "insert"
             /\ run'.queue = Tail(run.queue)]_vars
    /\ [](run.pc = "done" =>
             /\ Len(run.results) = run.total
             /\ \A k \in DOMAIN run.results :
                    (run.results[k].service = "cloudtrail"
                     /\ ~run.results[k].result.error
                     /\ run.results[k].result.inserted
                            = Len(UnitRecords("cloudtrail", run.results[k].unit)))
                    => \A j \in DOMAIN UnitRecords("cloudtrail", run.results[k].unit) :
                           UnitRecords("cloudtrail", run.results[k].unit)[j].event_id
                               \in EventIds(events))

\* A run of main in which the RDS call of one group failed, and the calls
\* for the other RDS group and for the CloudTrail events were committed.
C19_Witness ==
    /\ run.pc = "done"
    /\ run.handler = "main"
    /\ Len(run.results) = 3
    /\ run.results[1].service = "rds" /\ run.results[1].result.error
    /\ run.results[2].service = "rds" /\ ~run.results[2].result.error
    /\ run.results[3].service = "cloudtrail" /\ ~run.results[3].result.error
    /\ BagSize(tables["RDS"]) = 1
    /\ events # NoRows

\* C20: without a database connection an insert function writes nothing
\* and returns the descriptor {error, processed: 0, inserted: 0,
\* updated: 0}.
C20_NoConnectionDescriptor ==
    /\ (call.fn = "cloudtrail" /\ ~call.conn /\ call.data # <<>>) =>
          /\ events = call.before
          /\ call.result.error
          /\ call.result.keys = {"error", "processed", "inserted", "updated"}
    /\ (call.fn = "reconcile" /\ ~call.conn /\ call.data # <<>>) =>
          /\ tables[call.type] = call.before
          /\ call.result = ErrorResult

(***************************************************************************)
(* One call of any function that uses the database: a reconcile function   *)
(* on a stored table, or, the tables being empty, the CloudTrail insert    *)
(* or a resolver on the stored events.                                     *)
(***************************************************************************)
NoStoredRows == \A T \in Types : tables[T] = NoRows

NextConn ==
    \/ NextCall
    \/ NoStoredRows /\ NextTrail

SpecConn == InitCall /\ [][NextConn]_vars

\* C21: every connection a reconcile / insert function or a resolver
\* acquires is closed before the function returns, on every exit path
\* (return, exception with rollback, early return): after a call no
\* connection is open.
C21_ConnectionsClosed ==
    /\ conns.open = 0
    /\ (call.fn # "none" /\ call.conn) => conns.acquired >= 1
    /\ (resolved.fn # "none" /\ resolved.conn) => conns.acquired >= 1

\* A reconcile call whose UPDATE raised after its resolver calls had each
\* acquired a connection.
C21_Witness ==
    /\ Raised
    /\ call.logged # <<>>
    /\ conns.acquired = 1 + Len(call.logged)
    /\ conns.open = 0

(***************************************************************************)
(* Properties of the phases of a run.                                      *)
(***************************************************************************)
\* The step is a call of an insert function by the orchestrator.
InsertCallStep == run.pc # "idle" /\ run'.results # run.results

\* C22: in both orchestrators an insert function is called only when every
\* extraction worker has finished, and the calls are made one at a time:
\* when a call begins no worker is pending, no database connection of an
\* earlier call is open, and the step is the call of one group.
C22_InsertsAfterExtraction ==
    [][InsertCallStep =>
          /\ run.pending = {}
          /\ \A u \in Accounts : run.units[u].role # "none"
          /\ run.pc = "insert"
          /\ conns.open = 0
          /\ conns'.open = 0
          /\ Len(run'.results) = Len(run.results) + 1
          /\ run'.queue = Tail(run.queue)]_vars

\* A run of main that made four calls, two for each service, after both
\* units had delivered records.
C22_Witness ==
    /\ run.pc = "done"
    /\ Len(run.results) = 4
    /\ run.pending = {}
    /\ \A u \in Accounts : GroupsOf(u, "rds") # {} /\ GroupsOf(u, "cloudtrail") # {}

\* The services of unit u that the loop left unstarted.
NotStarted(u) == {sv \in {"rds", "cloudtrail"} : run.units[u].out[sv] = "not_started"}

\* C23: in script.process_account_region a service extraction is started
\* exactly when the check before it finds at most 300 seconds elapsed
\* since the unit started; once more has elapsed no further service is
\* started, and the unit returns what it fetched as a normal result: it is
\* not in the error list and the records of the services it fetched are
\* collected and, when the run has ended, reconciled.
C23_TimeoutYieldsPartialResult ==
    (Collected /\ run.handler = "main") =>
        \A u \in Accounts :
            ~RoleFailed(u) =>
                /\ \A i \in DOMAIN RunServices :
                       (RunServices[i] \notin NotStarted(u))
                           <=> (/\ i <= Len(run.units[u].checks)
                                /\ \A j \in 1..i :
                                       run.units[u].checks[j] <= UnitTimeout)
                /\ NotStarted(u) # {} =>
                       /\ run.errors[u] = <<>>
                       /\ \A sv \in {"rds", "cloudtrail"} :
                              run.units[u].out[sv] = "records" =>
                                  /\ GroupsOf(u, sv) # {}
                                  /\ run.pc = "done" => CallsFor(u, sv) # {}

\* A run of main with a unit whose RDS extraction took the budget: its
\* RDS records were reconciled and its CloudTrail extraction never began.
C23_Witness ==
    /\ run.pc = "done"
    /\ run.handler = "main"
    /\ \E u \in Accounts :
          /\ run.units[u].checks = <<100, 401>>
          /\ run.units[u].out["rds"] = "records"
          /\ NotStarted(u) = {"cloudtrail"}
          /\ \E k \in CallsFor(u, "rds") : ~run.results[k].result.error
          /\ CallsFor(u, "cloudtrail") = {}

(***************************************************************************)
(* get_cloudtrail_events: the raw events of a lookup are parsed, filtered  *)
(* and normalized.  A JSON value carries its kind k, its text s (strings,  *)
(* as a sequence of tokens) and its members d (the keys of an object with  *)
(* their values, or the elements of an array).                             *)
(***************************************************************************)
JNull == [k |-> "null", s |-> <<>>, d |-> <<>>]
JStr(s) == [k |-> "str", s |-> s, d |-> <<>>]
JW(word) == JStr(<<word>>)
JDict(d) == [k |-> "dict", s |-> <<>>, d |-> d]
JList(l) == [k |-> "list", s |-> <<>>, d |-> l]

\* The outcome of an expression: its value, or an exception raised.
Ok(v) == [raised |-> FALSE, v |-> v]
Raise == [raised |-> TRUE, v |-> JNull]

\* Python truthiness of a parsed value, as `a or b` reads it.
JTruthy(v) ==
    CASE v.k = "null" -> FALSE
      [] v.k = "str" -> v.s # <<>>
      [] OTHER -> DOMAIN v.d # {}

\* v.get(key, default): AttributeError unless v is a dict.
DictGet(v, key, default) ==
    IF v.k # "dict" THEN Raise
    ELSE IF key \in DOMAIN v.d THEN Ok(v.d[key]) ELSE Ok(default)

\* v.get(key, default) of a value known to be a dict.
GetOr(v, key, default) == IF key \in DOMAIN v.d THEN v.d[key] ELSE default

\* `key in v`: TypeError when v is None; the keys of a dict, the elements
\* of a list, the text of a string.
CanContain(v) == v.k # "null"

InJ(key, v) ==
    CASE v.k = "dict" -> key \in DOMAIN v.d
      [] v.k = "list" -> \E i \in DOMAIN v.d : v.d[i] = JW(key)
      [] v.k = "str" -> \E i \in DOMAIN v.s : v.s[i] = key
      [] OTHER -> FALSE

\* v[key] of a dict; KeyError or TypeError otherwise.
Index(v, key) ==
    IF v.k = "dict" /\ key \in DOMAIN v.d THEN Ok(v.d[key]) ELSE Raise

\* event_name in [...] and event_name == "...": equality with a listed name.
NameIn(v, names) == v.k = "str" /\ Len(v.s) = 1 /\ v.s[1] \in names

\* s.split(":"): the pieces of s between colons.
RECURSIVE SplitColon(_, _)
SplitColon(s, piece) ==
    IF s = <<>> THEN <<piece>>
    ELSE IF Head(s) = ":" THEN <<piece>> \o SplitColon(Tail(s), <<>>)
    ELSE SplitColon(Tail(s), Append(piece, Head(s)))

\* "rds:db:" in resource_arn, for a string.
HasRdsDb(s) ==
    \E i \in 1..(Len(s) - 3) :
        SubSeq(s, i, i + 3) = <<"rds", ":", "db", ":">>

IMPORTANT_EC2_EVENTS ==
    {"StartInstances", "StopInstances", "RebootInstances", "TerminateInstances",
     "ModifyInstanceAttribute", "CreateTags", "DeleteTags", "RunInstances",
     "AttachVolume", "DetachVolume"}

IMPORTANT_RDS_EVENTS ==
    {"CreateDBInstance", "DeleteDBInstance", "ModifyDBInstance",
     "RebootDBInstance", "StartDBInstance", "StopDBInstance",
     "RestoreDBInstanceFromDBSnapshot", "CreateDBSnapshot", "DeleteDBSnapshot",
     "AddTagsToResource", "RemoveTagsFromResource"}

IMPORTANT_VPC_EVENTS ==
    {"CreateVpc", "DeleteVpc", "ModifyVpcAttribute", "CreateSubnet",
     "DeleteSubnet", "ModifySubnetAttribute", "CreateRouteTable",
     "DeleteRouteTable", "CreateRoute", "DeleteRoute", "CreateInternetGateway",
     "DeleteInternetGateway", "AttachInternetGateway", "DetachInternetGateway",
     "CreateNatGateway", "DeleteNatGateway"}

\* The EC2 branch of extract_resource_id; name is the eventName.
\* instancesSet.items[0].instanceId of the instance events.
Ec2Instances(req) ==
    IF req.k # "dict" THEN Raise
    ELSE DictGet(GetOr(req, "instancesSet", JDict(<<>>)), "items", JList(<<>>))

\* `for key in ["instanceId", "resourceId"]: if key in req and req[key]`
Ec2Common(req) ==
    IF ~CanContain(req) THEN Raise
    ELSE IF InJ("instanceId", req) /\ Index(req, "instanceId").raised THEN Raise
    ELSE IF InJ("instanceId", req) /\ JTruthy(Index(req, "instanceId").v)
    THEN Index(req, "instanceId")
    ELSE IF InJ("resourceId", req) /\ Index(req, "resourceId").raised THEN Raise
    ELSE IF InJ("resourceId", req) /\ JTruthy(Index(req, "resourceId").v)
    THEN Index(req, "resourceId")
    ELSE Ok(JW("unknown"))

Ec2ResourceId(name, req, res) ==
    IF NameIn(name, {"StartInstances", "StopInstances", "RebootInstances",
                     "TerminateInstances"})
    THEN IF Ec2Instances(req).raised THEN Raise
         ELSE IF JTruthy(Ec2Instances(req).v)
         THEN IF Ec2Instances(req).v.k = "list"
              THEN DictGet(Ec2Instances(req).v.d[1], "instanceId", JW("unknown"))
              ELSE Raise
         ELSE Ec2Common(req)
    ELSE IF NameIn(name, {"ModifyInstanceAttribute"})
    THEN DictGet(req, "instanceId", JW("unknown"))
    ELSE Ec2Common(req)

\* The RDS branch: the tags events read the instance from the ARN.
RdsTagResource(req) ==
    IF req.k # "dict" THEN Raise
    ELSE IF /\ GetOr(req, "resourceName", JNull).k = "str"
            /\ HasRdsDb(GetOr(req, "resourceName", JNull).s)
            /\ Len(SplitColon(GetOr(req, "resourceName", JNull).s, <<>>)) > 6
    THEN Ok(JStr(SplitColon(GetOr(req, "resourceName", JNull).s, <<>>)[7]))
    ELSE Ok(JW("unknown"))

RdsResourceId(name, req, res) ==
    IF ~CanContain(req) THEN Raise
    ELSE IF InJ("dBInstanceIdentifier", req)
    THEN Index(req, "dBInstanceIdentifier")
    ELSE IF ~CanContain(res) THEN Raise
    ELSE IF InJ("dBInstanceIdentifier", res)
    THEN Index(res, "dBInstanceIdentifier")
    ELSE IF InJ("dBSnapshotIdentifier", req)
    THEN Index(req, "dBSnapshotIdentifier")
    ELSE IF NameIn(name, {"AddTagsToResource", "RemoveTagsFromResource"})
    THEN RdsTagResource(req)
    ELSE Ok(JW("unknown"))

\* `"vpc" in res and "vpcId" in res["vpc"]`: whether the condition holds,
\* or the exception its evaluation raises.
NestedHas(res, outer, inner) ==
    IF ~CanContain(res) THEN [raised |-> TRUE, holds |-> FALSE]
    ELSE IF ~InJ(outer, res) THEN [raised |-> FALSE, holds |-> FALSE]
    ELSE IF Index(res, outer).raised \/ ~CanContain(Index(res, outer).v)
    THEN [raised |-> TRUE, holds |-> FALSE]
    ELSE [raised |-> FALSE, holds |-> InJ(inner, Index(res, outer).v)]

\* The VPC branch: the pairs (key of the request, object of the response
\* holding the key) are tried in turn.
VpcKeys ==
    <<<<"vpcId", "vpc">>, <<"subnetId", "subnet">>,
      <<"internetGatewayId", "internetGateway">>,
      <<"natGatewayId", "natGateway">>>>

RECURSIVE VpcResourceId(_, _, _)
VpcResourceId(req, res, i) ==
    IF i > Len(VpcKeys) THEN Ok(JW("unknown"))
    ELSE IF ~CanContain(req) THEN Raise
    ELSE IF InJ(VpcKeys[i][1], req) THEN Index(req, VpcKeys[i][1])
    ELSE IF NestedHas(res, VpcKeys[i][2], VpcKeys[i][1]).raised THEN Raise
    ELSE IF NestedHas(res, VpcKeys[i][2], VpcKeys[i][1]).holds
    THEN Index(Index(res, VpcKeys[i][2]).v, VpcKeys[i][1])
    ELSE VpcResourceId(req, res, i + 1)

\* extract_resource_id(event, resource_type) for a dict event.
extract_resource_id(event, resource_type) ==
    CASE resource_type = "EC2" ->
             Ec2ResourceId(GetOr(event, "eventName", JStr(<<>>)),
                           GetOr(event, "requestParameters", JDict(<<>>)),
                           GetOr(event, "responseElements", JDict(<<>>)))
      [] resource_type = "RDS" ->
             RdsResourceId(GetOr(event, "eventName", JStr(<<>>)),
                           GetOr(event, "requestParameters", JDict(<<>>)),
                           GetOr(event, "responseElements", JDict(<<>>)))
      [] resource_type = "VPC" ->
             VpcResourceId(GetOr(event, "requestParameters", JDict(<<>>)),
                           GetOr(event, "responseElements", JDict(<<>>)), 1)
      [] OTHER -> Ok(JW("unknown"))

\* The members of f with a key in S.
Restrict(f, S) == IF S = {} THEN <<>> ELSE [x \in S |-> f[x]]

\* {key: req.get(key) for the keys}: AttributeError unless req is a dict.
Picked(req, keys) ==
    IF req.k # "dict" THEN Raise
    ELSE Ok(JDict([x \in keys |-> GetOr(req, x, JNull)]))

\* `if key in req: details[key] = req[key]` for the keys, in turn.
Present(req, keys) ==
    IF ~CanContain(req) THEN Raise
    ELSE IF req.k = "dict" THEN Ok(JDict(Restrict(req.d, keys \cap DOMAIN req.d)))
    ELSE IF \E x \in keys : InJ(x, req) THEN Raise
    ELSE Ok(JDict(<<>>))

\* `for key, value in req.items(): if key not in [...]`
Others(req, keys) ==
    IF req.k # "dict" THEN Raise
    ELSE Ok(JDict(Restrict(req.d, DOMAIN req.d \ keys)))

\* `if outer in res: details[key] = res[outer].get(key)`
FromResponse(res, outer, key) ==
    IF ~CanContain(res) THEN Raise
    ELSE IF ~InJ(outer, res) THEN Ok(JDict(<<>>))
    ELSE IF Index(res, outer).raised \/ Index(res, outer).v.k # "dict" THEN Raise
    ELSE Ok(JDict(key :> GetOr(Index(res, outer).v, key, JNull)))

\* The details of two statements in sequence, or the exception of one.
Both(a, b) ==
    IF a.raised \/ b.raised THEN Raise
    ELSE IF DOMAIN a.v.d = {} THEN b
    ELSE IF DOMAIN b.v.d = {} THEN a
    ELSE Ok(JDict(b.v.d @@ a.v.d))

\* details["state"] = instances[0].get("currentState", {}).get("name")
Ec2State(res) ==
    IF Ec2Instances(res).raised THEN Raise
    ELSE IF ~JTruthy(Ec2Instances(res).v) THEN Ok(JDict(<<>>))
    ELSE IF Ec2Instances(res).v.k # "list" THEN Raise
    ELSE IF DictGet(Ec2Instances(res).v.d[1], "currentState", JDict(<<>>)).raised
    THEN Raise
    ELSE IF DictGet(DictGet(Ec2Instances(res).v.d[1], "currentState",
                            JDict(<<>>)).v, "name", JNull).raised
    THEN Raise
    ELSE Ok(JDict("state" :>
             DictGet(DictGet(Ec2Instances(res).v.d[1], "currentState",
                             JDict(<<>>)).v, "name", JNull).v))

\* event_name.replace("DBInstance", "")
WithoutDBInstance(word) ==
    CASE word = "StartDBInstance" -> "Start"
      [] word = "StopDBInstance" -> "Stop"
      [] word = "RebootDBInstance" -> "Reboot"
      [] OTHER -> word

\* changes["details"] as extract_changes fills it.
Details(resource_type, name, req, res) ==
    CASE resource_type = "EC2" /\ NameIn(name, {"StartInstances", "StopInstances",
                                  "RebootInstances", "TerminateInstances"}) ->
             Ec2State(res)
      [] resource_type = "EC2" /\ NameIn(name, {"ModifyInstanceAttribute"}) ->
             Others(req, {"instanceId", "attribute", "value"})
      [] resource_type = "RDS" /\ NameIn(name, {"CreateDBInstance"}) ->
             Picked(req, {"engine", "dbInstanceClass", "allocatedStorage",
                          "multiAZ"})
      [] resource_type = "RDS" /\ NameIn(name, {"ModifyDBInstance"}) ->
             Present(req, {"dbInstanceClass", "allocatedStorage", "multiAZ",
                           "engineVersion"})
      [] resource_type = "RDS" /\ NameIn(name, {"StartDBInstance",
                                  "StopDBInstance", "RebootDBInstance"}) ->
             Ok(JDict("action" :> JW(WithoutDBInstance(name.s[1]))))
      [] resource_type = "RDS" /\ NameIn(name, {"AddTagsToResource",
                                  "RemoveTagsFromResource"}) ->
             Present(req, {"tags"})
      [] resource_type = "VPC" /\ NameIn(name, {"CreateVpc"}) ->
             Both(IF req.k # "dict" THEN Raise
                  ELSE Ok(JDict(("cidrBlock" :> GetOr(req, "cidrBlock", JNull))
                                @@ ("instanceTenancy" :>
                                       GetOr(req, "instanceTenancy",
                                             JW("default"))))),
                  FromResponse(res, "vpc", "vpcId"))
      [] resource_type = "VPC" /\ NameIn(name, {"ModifyVpcAttribute"}) ->
             Others(req, {"vpcId", "attribute"})
      [] resource_type = "VPC" /\ NameIn(name, {"CreateSubnet"}) ->
             Both(Picked(req, {"vpcId", "cidrBlock", "availabilityZone"}),
                  FromResponse(res, "subnet", "subnetId"))
      [] resource_type = "VPC" /\ NameIn(name, {"CreateInternetGateway"}) ->
             FromResponse(res, "internetGateway", "internetGatewayId")
      [] resource_type = "VPC" /\ NameIn(name, {"AttachInternetGateway",
                                  "DetachInternetGateway"}) ->
             Picked(req, {"vpcId", "internetGatewayId"})
      [] resource_type = "VPC" /\ NameIn(name, {"CreateNatGateway"}) ->
             Both(Picked(req, {"subnetId", "allocationId"}),
                  FromResponse(res, "natGateway", "natGatewayId"))
      [] OTHER -> Ok(JDict(<<>>))

\* extract_changes(event, resource_type) for a dict event.
ChangesOf(name, details) ==
    IF details.raised THEN Raise
    ELSE Ok(JDict(("eventType" :> name) @@ ("details" :> details.v)))

extract_changes(event, resource_type) ==
    ChangesOf(GetOr(event, "eventName", JStr(<<>>)),
              Details(resource_type, GetOr(event, "eventName", JStr(<<>>)),
                      GetOr(event, "requestParameters", JDict(<<>>)),
                      GetOr(event, "responseElements", JDict(<<>>))))

(***************************************************************************)
(* The body of a raw event is JSON text, here a sequence of tokens: the    *)
(* punctuation, null, and string literals.                                 *)
(***************************************************************************)
Tok(t) == [t |-> t, s |-> <<>>]
TStr(s) == [t |-> "str", s |-> s]

NoParse == [ok |-> FALSE, v |-> JNull, rest |-> <<>>]
Parsed(v, rest) == [ok |-> TRUE, v |-> v, rest |-> rest]

\* d[key] = v; a repeated key keeps its last value.
Put(d, key, v) ==
    IF DOMAIN d = {} THEN key :> v
    ELSE [x \in DOMAIN d \cup {key} |-> IF x = key THEN v ELSE d[x]]

RECURSIVE ParseValue(_)
RECURSIVE ParseMembers(_, _)
RECURSIVE ParseElements(_, _)

\* After `key: value`: a comma and the next member, or the closing brace.
MemberEnd(p, d, key) ==
    IF ~p.ok \/ p.rest = <<>> THEN NoParse
    ELSE IF Head(p.rest).t = "}"
    THEN Parsed(JDict(Put(d, key, p.v)), Tail(p.rest))
    ELSE IF Head(p.rest).t = ","
    THEN ParseMembers(Tail(p.rest), Put(d, key, p.v))
    ELSE NoParse

\* A member `key: value`; the keys are single words.
ParseMembers(toks, d) ==
    IF Len(toks) < 3 THEN NoParse
    ELSE IF toks[1].t # "str" \/ Len(toks[1].s) # 1 \/ toks[2].t # ":"
    THEN NoParse
    ELSE MemberEnd(ParseValue(SubSeq(toks, 3, Len(toks))), d, toks[1].s[1])

\* After an element: a comma and the next element, or the closing bracket.
ElementEnd(p, l) ==
    IF ~p.ok \/ p.rest = <<>> THEN NoParse
    ELSE IF Head(p.rest).t = "]"
    THEN Parsed(JList(Append(l, p.v)), Tail(p.rest))
    ELSE IF Head(p.rest).t = ","
    THEN ParseElements(Tail(p.rest), Append(l, p.v))
    ELSE NoParse

ParseElements(toks, l) == ElementEnd(ParseValue(toks), l)

ParseValue(toks) ==
    IF toks = <<>> THEN NoParse
    ELSE CASE Head(toks).t = "null" -> Parsed(JNull, Tail(toks))
           [] Head(toks).t = "str" -> Parsed(JStr(Head(toks).s), Tail(toks))
           [] Head(toks).t = "{" ->
                  IF Len(toks) > 1 /\ toks[2].t = "}"
                  THEN Parsed(JDict(<<>>), SubSeq(toks, 3, Len(toks)))
                  ELSE ParseMembers(Tail(toks), <<>>)
           [] Head(toks).t = "[" ->
                  IF Len(toks) > 1 /\ toks[2].t = "]"
                  THEN Parsed(JList(<<>>), SubSeq(toks, 3, Len(toks)))
                  ELSE ParseElements(Tail(toks), <<>>)
           [] OTHER -> NoParse

\* json.loads(text): the value of the whole text, or JSONDecodeError.
Loaded(p) == IF p.ok /\ p.rest = <<>> THEN Ok(p.v) ELSE Raise

json_loads(text) == Loaded(ParseValue(text))

\* The text of a value, as the trail serializes an event.
RECURSIVE Dump(_)
RECURSIVE DumpMembers(_, _)
RECURSIVE DumpElements(_, _)

DumpMembers(d, keys) ==
    IF keys = {} THEN <<>>
    ELSE LET key == CHOOSE x \in keys : TRUE
         IN <<TStr(<<key>>), Tok(":")>> \o Dump(d[key])
            \o (IF keys = {key} THEN <<>>
                ELSE <<Tok(",")>> \o DumpMembers(d, keys \ {key}))

DumpElements(l, i) ==
    IF i > Len(l) THEN <<>>
    ELSE Dump(l[i])
         \o (IF i = Len(l) THEN <<>> ELSE <<Tok(",")>> \o DumpElements(l, i + 1))

Dump(v) ==
    CASE v.k = "null" -> <<Tok("null")>>
      [] v.k = "str" -> <<TStr(v.s)>>
      [] v.k = "dict" ->
             <<Tok("{")>> \o DumpMembers(v.d, DOMAIN v.d) \o <<Tok("}")>>
      [] OTHER -> <<Tok("[")>> \o DumpElements(v.d, 1) \o <<Tok("]")>>

\* A raw event of lookup_events with its body, and one without a body.
Raw(id, text) ==
    [EventId |-> id, EventTime |-> 1, has_body |-> TRUE, CloudTrailEvent |-> text]
RawNoBody(id) ==
    [EventId |-> id, EventTime |-> 1, has_body |-> FALSE, CloudTrailEvent |-> <<>>]

\* raw_event.get("CloudTrailEvent", "{}")
BodyOf(raw) ==
    IF raw.has_body THEN raw.CloudTrailEvent ELSE <<Tok("{"), Tok("}")>>

\* user_identity.get("userName") or user_identity.get("principalId")
\* or "unknown"
UserNameOnly(user_identity) == GetOr(user_identity, "userName", JNull)

UserName(user_identity) ==
    IF JTruthy(GetOr(user_identity, "userName", JNull))
    THEN GetOr(user_identity, "userName", JNull)
    ELSE IF JTruthy(GetOr(user_identity, "principalId", JNull))
    THEN GetOr(user_identity, "principalId", JNull)
    ELSE JW("unknown")

\* `if event_name not in important_events: continue`
ImportantAny(event_name, important_events) == TRUE

Important(event_name, important_events) == NameIn(event_name, important_events)

\* What the body of the loop does with one raw event: it appends a parsed
\* event, it continues with the next, or it raises.
Failed == [kind |-> "failed"]
Dropped == [kind |-> "dropped"]

Normalized(raw, detail, user_identity, resource_name, changes, resource_type, region) ==
    IF user_identity.k # "dict" \/ resource_name.raised \/ changes.raised
    THEN Failed
    ELSE [kind |-> "event",
          event |-> [event_id |-> raw.EventId,
                     event_time |-> raw.EventTime,
                     event_name |-> GetOr(detail, "eventName", JNull),
                     event_source |-> GetOr(detail, "eventSource",
                                            JW("unknown")),
                     user_name |-> UserName(user_identity),
                     resource_name |-> resource_name.v,
                     resource_type |-> resource_type,
                     changes |-> changes.v,
                     region |-> region]]

ParseDetail(raw, detail, important_events, resource_type, region) ==
    IF detail.raised THEN Failed
    ELSE IF detail.v.k # "dict" THEN Failed
    ELSE IF ~Important(GetOr(detail.v, "eventName", JNull), important_events)
    THEN Dropped
    ELSE Normalized(raw, detail.v,
                    GetOr(detail.v, "userIdentity", JDict(<<>>)),
                    extract_resource_id(detail.v, resource_type),
                    extract_changes(detail.v, resource_type),
                    resource_type, region)

ParseEvent(raw, important_events, resource_type, region) ==
    ParseDetail(raw, json_loads(BodyOf(raw)), important_events, resource_type,
                region)

\* The inner try: an event that raises is reported and the loop goes on.
AfterEventAborts(acc, p) ==
    IF acc.error \/ p.kind = "failed" THEN [error |-> TRUE, events |-> <<>>]
    ELSE IF p.kind = "event" THEN [acc EXCEPT !.events = Append(@, p.event)]
    ELSE acc

AfterEvent(acc, p) ==
    IF p.kind = "event" THEN [acc EXCEPT !.events = Append(@, p.event)]
    ELSE acc

RECURSIVE ParseLoop(_, _, _, _, _, _)
ParseLoop(raws, i, important_events, resource_type, region, acc) ==
    IF i > Len(raws) THEN acc
    ELSE ParseLoop(raws, i + 1, important_events, resource_type, region,
                   AfterEvent(acc, ParseEvent(raws[i], important_events,
                                              resource_type, region)))

\* get_cloudtrail_events: without a client, or when the lookup raises, the
\* answer is an error with no events.
get_cloudtrail_events(outcome, raws, important_events, resource_type, region) ==
    IF outcome # "events" THEN [error |-> TRUE, events |-> <<>>]
    ELSE ParseLoop(raws, 1, important_events, resource_type, region,
                   [error |-> FALSE, events |-> <<>>])

\* get_ec2_cloudtrail_events, get_rds_cloudtrail_events and
\* get_vpc_cloudtrail_events pass the list of their resource type.
ImportantFor(resource_type) ==
    CASE resource_type = "EC2" -> IMPORTANT_EC2_EVENTS
      [] resource_type = "RDS" -> IMPORTANT_RDS_EVENTS
      [] OTHER -> IMPORTANT_VPC_EVENTS

(***************************************************************************)
(* The raw events of a lookup window.                                      *)
(***************************************************************************)
Alice == "userName" :> JW("alice") @@ "principalId" :> JW("AIDA1")
NoName == "userName" :> JStr(<<>>) @@ "principalId" :> JW("AIDA1")
NullName == "userName" :> JNull @@ "principalId" :> JStr(<<>>)
PrincipalOnly == "principalId" :> JW("AIDA2")

Detail(name, source, user_identity, req, res) ==
    JDict("eventName" :> JW(name) @@ "eventSource" :> JW(source)
          @@ "userIdentity" :> user_identity
          @@ "requestParameters" :> req @@ "responseElements" :> res)

RdsRequest == JDict("dBInstanceIdentifier" :> JW("db-1"))
StopDb == Detail("StopDBInstance", "rds.amazonaws.com", JDict(Alice),
                 RdsRequest, JNull)
ModifyDb ==
    Detail("ModifyDBInstance", "rds.amazonaws.com", JDict(NoName),
           JDict("dBInstanceIdentifier" :> JW("db-1")
                 @@ "dbInstanceClass" :> JW("db.t3.large")), JNull)
DeleteDb == Detail("DeleteDBInstance", "rds.amazonaws.com", JDict(<<>>),
                   RdsRequest, JNull)
RebootDb == Detail("RebootDBInstance", "rds.amazonaws.com", JDict(NullName),
                   RdsRequest, JNull)
DescribeDb == Detail("DescribeDBInstances", "rds.amazonaws.com", JDict(Alice),
                     JDict(<<>>), JNull)
StopDbNoRequest == Detail("StopDBInstance", "rds.amazonaws.com", JDict(Alice),
                          JNull, JNull)
StopDbNoIdentity == Detail("StopDBInstance", "rds.amazonaws.com", JNull,
                           RdsRequest, JNull)
TagDb ==
    Detail("AddTagsToResource", "rds.amazonaws.com", JDict(Alice),
           JDict("resourceName" :>
                     JStr(<<"arn", ":", "aws", ":", "rds", ":", "us-east-1",
                            ":", "111", ":", "db", ":", "db-1">>)
                 @@ "tags" :> JList(<<JDict("key" :> JW("env"))>>)), JNull)
UntagDb ==
    Detail("RemoveTagsFromResource", "rds.amazonaws.com", JDict(Alice),
           JDict("resourceName" :>
                     JStr(<<"arn", ":", "aws", ":", "rds", ":", "us-east-1",
                            ":", "111", ":", "db", ":", "db-1">>)),
           JDict(<<>>))
InstanceItems ==
    JDict("instancesSet" :>
              JDict("items" :> JList(<<JDict("instanceId" :> JW("i-1"))>>)))
StartInstance == Detail("StartInstances", "ec2.amazonaws.com", JDict(Alice),
                        InstanceItems, JNull)
StopInstance ==
    Detail("StopInstances", "ec2.amazonaws.com", JDict(PrincipalOnly),
           InstanceItems,
           JDict("instancesSet" :>
                     JDict("items" :>
                               JList(<<JDict("instanceId" :> JW("i-1")
                                             @@ "currentState" :>
                                                    JDict("name" :>
                                                        JW("stopping")))>>))))
ModifyInstance ==
    Detail("ModifyInstanceAttribute", "ec2.amazonaws.com",
           JDict(PrincipalOnly),
           JDict("instanceId" :> JW("i-1")
                 @@ "instanceType" :> JDict("value" :> JW("t3.large"))),
           JNull)
CreateVpc ==
    Detail("CreateVpc", "ec2.amazonaws.com", JDict(Alice),
           JDict("cidrBlock" :> JW("10.0.0.0/16")),
           JDict("vpc" :> JDict("vpcId" :> JW("vpc-1"))))

\* A text cut short does not parse.
Truncated(text) == SubSeq(text, 1, Len(text) - 1)

RawEvents ==
    {Raw("e01", Dump(StopDb)), Raw("e02", Dump(ModifyDb)),
     Raw("e03", Dump(DeleteDb)), Raw("e04", Dump(RebootDb)),
     Raw("e05", Dump(DescribeDb)), Raw("e06", Dump(StopDbNoRequest)),
     Raw("e07", Dump(StopDbNoIdentity)), Raw("e08", Dump(TagDb)),
     Raw("e09", Dump(StartInstance)), Raw("e10", Dump(StopInstance)),
     Raw("e11", Dump(ModifyInstance)), Raw("e12", Dump(CreateVpc)),
     Raw("e13", Truncated(Dump(StopDb))),
     Raw("e14", Dump(JList(<<StopDb>>))), RawNoBody("e15"),
     Raw("e16", Dump(UntagDb))}

ResourceTypes == {"EC2", "RDS", "VPC"}
LookupOutcomes == {"events", "no_client", "lookup_raises"}

InitFetch ==
    /\ tables = [T \in Types |-> NoRows]
    /\ changeLog = <<>>
    /\ events = NoRows
    /\ now = 0
    /\ call = NoCall
    /\ resolved = NoResolve
    /\ cmp = NoCmp
    /\ run = NoRun
    /\ conns = NoConns
    /\ \E raws \in SeqsUpTo(RawEvents, MaxBatch), resource_type \in ResourceTypes :
           fetched = [fn |-> "none", raws |-> raws,
                      resource_type |-> resource_type]

GetCloudtrailEvents ==
    /\ fetched.fn = "none"
    /\ \E outcome \in LookupOutcomes :
           fetched' = [fn |-> "get_cloudtrail_events",
                       raws |-> fetched.raws,
                       resource_type |-> fetched.resource_type,
                       outcome |-> outcome,
                       result |-> get_cloudtrail_events(
                                      outcome, fetched.raws,
                                      ImportantFor(fetched.resource_type),
                                      fetched.resource_type, "us-east-1")]
    /\ UNCHANGED <<tables, changeLog, events, now, call, resolved, cmp, run,
                   conns>>

NextFetch == GetCloudtrailEvents

SpecFetch == InitFetch /\ [][NextFetch]_vars

(***************************************************************************)
(* Properties of get_cloudtrail_events.                                    *)
(***************************************************************************)
\* The call has returned the answer of a lookup that gave its events.
Fetched == fetched.fn = "get_cloudtrail_events" /\ fetched.outcome = "events"

\* The body of the raw event is JSON text of an object.
HasDetail(raw) ==
    /\ ~json_loads(BodyOf(raw)).raised
    /\ json_loads(BodyOf(raw)).v.k = "dict"

\* The eventName of the raw event is in the set of the resource type.
IsImportant(raw, resource_type) ==
    /\ HasDetail(raw)
    /\ "eventName" \in DOMAIN json_loads(BodyOf(raw)).v.d
    /\ json_loads(BodyOf(raw)).v.d["eventName"].k = "str"
    /\ \E name \in ImportantFor(resource_type) :
           json_loads(BodyOf(raw)).v.d["eventName"].s = <<name>>

\* The body makes the reading of the actor, of the resource id or of the
\* changes raise.
ExtractionRaises(raw, resource_type) ==
    /\ HasDetail(raw)
    /\ \/ GetOr(json_loads(BodyOf(raw)).v, "userIdentity", JDict(<<>>)).k # "dict"
       \/ extract_resource_id(json_loads(BodyOf(raw)).v, resource_type).raised
       \/ extract_changes(json_loads(BodyOf(raw)).v, resource_type).raised

Malformed(raw, resource_type) ==
    ~HasDetail(raw) \/ ExtractionRaises(raw, resource_type)

ReturnedIds(evs) == [i \in 1..Len(evs) |-> evs[i].event_id]
RawIds(raws) == [i \in 1..Len(raws) |-> raws[i].EventId]

\* The well-formed important events of the window, in input order.
Expected(raws, resource_type) ==
    LET Test(raw) == IsImportant(raw, resource_type)
                     /\ ~Malformed(raw, resource_type)
    IN SelectSeq(raws, Test)

\* C24: a malformed raw event (unparsable text, or a body that makes the
\* extraction of the resource id or of the changes raise) is skipped alone:
\* the call returns no error and its events are exactly the well-formed
\* important events of the window, in input order.
C24_MalformedEventSkipped ==
    Fetched =>
        /\ ~fetched.result.error
        /\ ReturnedIds(fetched.result.events)
               = RawIds(Expected(fetched.raws, fetched.resource_type))

\* A window that begins with an event whose body is not the text of an
\* object: the well-formed important event after it is returned.
C24_Witness ==
    /\ Fetched
    /\ Len(fetched.raws) = 2
    /\ ~HasDetail(fetched.raws[1])
    /\ IsImportant(fetched.raws[2], fetched.resource_type)
    /\ ~Malformed(fetched.raws[2], fetched.resource_type)
    /\ ~fetched.result.error
    /\ ReturnedIds(fetched.result.events) = <<fetched.raws[2].EventId>>

\* C25: a raw event is returned if and only if its eventName is in the set
\* of important events of the resource type and its body is well-formed;
\* every returned event has a name of that set and the resource type of the
\* call.
C25_OnlyImportantEventsReturned ==
    Fetched =>
        /\ \A i \in 1..Len(fetched.raws) :
               (\E j \in 1..Len(fetched.result.events) :
                    fetched.result.events[j].event_id = fetched.raws[i].EventId)
               <=> /\ IsImportant(fetched.raws[i], fetched.resource_type)
                   /\ ~Malformed(fetched.raws[i], fetched.resource_type)
        /\ \A j \in 1..Len(fetched.result.events) :
               /\ fetched.result.events[j].event_name.k = "str"
               /\ \E name \in ImportantFor(fetched.resource_type) :
                      fetched.result.events[j].event_name.s = <<name>>
               /\ fetched.result.events[j].resource_type = fetched.resource_type

\* A window with a well-formed event outside the set and one inside it.
C25_Witness ==
    /\ Fetched
    /\ Len(fetched.raws) = 2
    /\ HasDetail(fetched.raws[1])
    /\ ~Malformed(fetched.raws[1], fetched.resource_type)
    /\ ~IsImportant(fetched.raws[1], fetched.resource_type)
    /\ IsImportant(fetched.raws[2], fetched.resource_type)
    /\ ReturnedIds(fetched.result.events) = <<fetched.raws[2].EventId>>

\* The value of the key is present and not empty.
NonEmpty(d, key) == key \in DOMAIN d /\ d[key] # JNull /\ d[key] # JStr(<<>>)

\* The actor the identity of a body names.
Actor(d) ==
    IF NonEmpty(d, "userName") THEN d["userName"]
    ELSE IF NonEmpty(d, "principalId") THEN d["principalId"]
    ELSE JW("unknown")

IdentityOf(raw) ==
    GetOr(json_loads(BodyOf(raw)).v, "userIdentity", JDict(<<>>)).d

\* C26: the actor of a returned event is the userName of its identity when
\* present and not empty, else the principalId when present and not empty,
\* else "unknown"; it is never empty or null.
C26_ActorFallback ==
    Fetched =>
        \A j \in 1..Len(fetched.result.events) :
            /\ fetched.result.events[j].user_name # JNull
            /\ fetched.result.events[j].user_name # JStr(<<>>)
            /\ \A i \in 1..Len(fetched.raws) :
                   fetched.raws[i].EventId = fetched.result.events[j].event_id
                   => fetched.result.events[j].user_name
                          = Actor(IdentityOf(fetched.raws[i]))

\* An event with an empty userName and a principalId, and one with neither.
C26_Witness ==
    /\ Fetched
    /\ Len(fetched.result.events) = 2
    /\ "userName" \in DOMAIN IdentityOf(fetched.raws[1])
    /\ IdentityOf(fetched.raws[1])["userName"] = JStr(<<>>)
    /\ fetched.result.events[1].user_name
           = IdentityOf(fetched.raws[1])["principalId"]
    /\ DOMAIN IdentityOf(fetched.raws[2]) = {}
    /\ fetched.result.events[2].user_name = JW("unknown")

(***************************************************************************)
(* Properties of the rows and of the change log over reconcile calls.      *)
(***************************************************************************)
\* The keys of the snapshots of a call.
KeysOf(T, data) == {KeyOfSnap(T, data[i]) : i \in DOMAIN data}

\* C27: no reconcile call, successful or failed, deletes a stored row: the
\* number of rows of each table never decreases, nor does the number of
\* rows stored under a key, whether the key is in the snapshot list or not.
C27_RowsNeverDeleted ==
    [][\A T \in Types :
           /\ BagSize(tables'[T]) >= BagSize(tables[T])
           /\ \A r \in DOMAIN tables[T] :
                  CountKey(T, tables'[T], KeyOfRow(T, r))
                      >= CountKey(T, tables[T], KeyOfRow(T, r))]_vars

\* A committed call that stored a new row and whose snapshots do not have
\* the key of a stored row: that row is still in the table, unchanged.
C27_Witness ==
    /\ Succeeded
    /\ BagSize(tables[call.type]) > BagSize(call.before)
    /\ \E r \in DOMAIN call.before :
           /\ KeyOfRow(call.type, r) \notin KeysOf(call.type, call.data)
           /\ r \in DOMAIN tables[call.type]

\* One call on a stored table, the change log holding an entry written by
\* an earlier run.
EarlierEntry ==
    [resource_type |-> "LAMBDA", resource_id |-> W("f-1"),
     field_name |-> "runtime", old_value |-> W("python3.9"),
     new_value |-> W("python3.12"), changed_by |-> "dave",
     account_id |-> W("111"), region |-> W("us-east-1")]

InitLog ==
    /\ \E T \in Types : \E B \in StoredTables(T) :
          tables = [U \in Types |-> IF U = T THEN B ELSE NoRows]
    /\ changeLog = <<EarlierEntry>>
    /\ events = StoredEvents
    /\ now = MaxNow - 1
    /\ call = NoCall
    /\ resolved = NoResolve
    /\ cmp = NoCmp
    /\ run = NoRun
    /\ conns = NoConns
    /\ fetched = NoFetch

SpecLog == InitLog /\ [][NextCall]_vars

\* The entries the passes of a call wrote, in order.
RECURSIVE LoggedBySteps(_)
LoggedBySteps(steps) ==
    IF steps = <<>> THEN <<>>
    ELSE Head(steps).logged \o LoggedBySteps(Tail(steps))

\* The entries of a pass: one per differing column of the stored row of the
\* snapshot, with the stored and the incoming value, which compared unequal.
LogsOnlyDifferences(T, s, before, step) ==
    /\ step.kind \in {"insert", "identity_insert", "skip"} => step.logged = <<>>
    /\ Len(step.logged) = Len(step.diffs)
    /\ \A i \in DOMAIN step.logged :
           /\ step.logged[i].field_name = step.diffs[i]
           /\ step.logged[i].resource_id = s[NatKey(T)]
           /\ step.logged[i].new_value = s[SnapKeyOf(T, step.diffs[i])]
           /\ \E r \in DOMAIN before :
                  /\ KeyOfRow(T, r) = KeyOfSnap(T, s)
                  /\ step.logged[i].old_value = Get(r, step.diffs[i])
           /\ ~FieldEqual(T, step.logged[i].old_value, step.logged[i].new_value)

\* C28: the change log is append-only and written only on a detected
\* difference: a reconcile call leaves the entries it found as they are and
\* appends one entry per (stored row, column) whose stored and incoming
\* values compared unequal; a pass that inserts a row, for a new key or on
\* an identity change, and a pass over an unchanged snapshot append none.
C28_LogAppendOnlyOnDifference ==
    [][/\ Len(changeLog') >= Len(changeLog)
       /\ SubSeq(changeLog', 1, Len(changeLog)) = changeLog
       /\ call'.fn = "reconcile" =>
              /\ changeLog' = changeLog \o LoggedBySteps(call'.steps)
              /\ \A k \in DOMAIN call'.steps :
                     LogsOnlyDifferences(call'.type, call'.data[k],
                                         call'.before, call'.steps[k])]_vars

\* A call that inserted a row without an entry, then updated a stored row
\* with entries, after the entry of the earlier run.
C28_Witness ==
    /\ Succeeded
    /\ Len(call.steps) = 2
    /\ call.steps[1].kind = "insert"
    /\ call.steps[1].logged = <<>>
    /\ call.steps[2].kind = "update"
    /\ call.steps[2].logged # <<>>
    /\ changeLog = <<EarlierEntry>> \o call.steps[2].logged

(***************************************************************************)
(* The comparison of scalars: a table holds one row whose compared column  *)
(* has the value old, and one reconcile call brings the same resource with *)
(* the value new, of any scalar type.                                      *)
(***************************************************************************)
Scalars ==
    {PyInt(<<"0">>), W("0"), PyInt(<<"1">>), W("1"), PyBool(<<"True">>),
     W("True"), PyNone, W("None"), PyStr(<<>>)}

\* The compared column that holds the scalar, per resource type.
ScalarCol(T) ==
    CASE T = "RDS" -> "status"
      [] T = "ATHENA" -> "owner"
      [] T = "EKS" -> "status"
      [] T = "LAMBDA" -> "memorysize"

\* A snapshot of account 111 with the value v under the key of the column.
ScalarSnap(T, v) ==
    [(CHOOSE s \in Snapshots(T) : s["AccountID"] = W("111"))
        EXCEPT ![SnapKeyOf(T, ScalarCol(T))] = v]

InitScalar ==
    /\ \E T \in Types, old \in Scalars, new \in Scalars :
          /\ tables = [U \in Types |->
                          IF U = T
                          THEN BagAdd(NoRows, RowOf(T, ScalarSnap(T, old), 0))
                          ELSE NoRows]
          /\ cmp = [done |-> FALSE, type |-> T, old |-> old, new |-> new]
    /\ changeLog = <<>>
    /\ events = StoredEvents
    /\ now = MaxNow - 1
    /\ call = NoCall
    /\ resolved = NoResolve
    /\ run = NoRun
    /\ conns = NoConns
    /\ fetched = NoFetch

CompareStoredScalar ==
    /\ now < MaxNow
    /\ ~cmp.done
    /\ \E resConn \in BOOLEAN,
          existing \in ExistingMaps(cmp.type, tables[cmp.type]) :
          Effect(cmp.type,
                 ReconcileOutcome(cmp.type, <<ScalarSnap(cmp.type, cmp.new)>>,
                     TRUE,
                     [evs |-> events, ts |-> now + 1, resConn |-> resConn,
                      failAt |-> 0],
                     existing, tables[cmp.type], changeLog), resConn)
    /\ cmp' = [done |-> TRUE, type |-> cmp.type, old |-> cmp.old,
               new |-> cmp.new,
               equal |-> FieldEqual(cmp.type, cmp.old, cmp.new)]
    /\ now' = now + 1
    /\ UNCHANGED <<events, resolved, run, fetched>>

SpecScalar == InitScalar /\ [][CompareStoredScalar]_vars

\* C29: a stored and an incoming scalar with the same string form compare
\* equal whatever their types (0 and "0", True and "True"): the call finds
\* no diff for the column, leaves the stored value as it is and writes no
\* ChangeLogEntry for the column.
C29_ScalarsComparedAsStrings ==
    (cmp.done /\ Str(cmp.old) = Str(cmp.new)) =>
        /\ cmp.equal
        /\ Succeeded
        /\ \A j \in DOMAIN call.steps[1].diffs :
               call.steps[1].diffs[j] # ScalarCol(cmp.type)
        /\ LoggedFor(1, ScalarCol(cmp.type)) = {}
        /\ \A r \in DOMAIN call.before :
               \E r2 \in DOMAIN tables[cmp.type] :
                   \A c \in ColNames(cmp.type) : r2[c] = r[c]

\* The stored value is the number 0 and the incoming one the text "0": the
\* Lambda row is left as it is.
C29_Witness ==
    /\ cmp.done
    /\ cmp.type = "LAMBDA"
    /\ cmp.old = PyInt(<<"0">>)
    /\ cmp.new = W("0")
    /\ cmp.equal
    /\ call.steps[1].kind = "skip"
    /\ changeLog = <<>>
    /\ tables = [U \in Types |->
                    IF U = "LAMBDA"
                    THEN BagAdd(NoRows, RowOf("LAMBDA",
                                    ScalarSnap("LAMBDA", PyInt(<<"0">>)), 0))
                    ELSE NoRows]

(***************************************************************************)
(* Attribution and change log entries come before the UPDATE.              *)
(***************************************************************************)
Attributed == {"EKS", "LAMBDA", "ATHENA"}

\* The pass got to its UPDATE statement, which was executed or raised.
ReachedUpdate(step) ==
    step.kind = "update" \/ (step.kind = "raise" /\ step.diffs # <<>>)

\* What the resolver answers to the call, with or without a connection.
Answers(T, args) ==
    UNION {Resolver(T, [evs |-> events, ts |-> now, resConn |-> c,
                        failAt |-> 0], args) : c \in BOOLEAN}

\* Pass k of the last call made one resolver call and wrote one entry per
\* differing column, whether its UPDATE was executed or raised, and the
\* entries are in the change log.
LoggedBeforeUpdate(k) ==
    /\ Len(call.steps[k].logged) = Len(call.steps[k].diffs)
    /\ Len(call.steps[k].resolver_calls) = Len(call.steps[k].diffs)
    /\ \A i \in DOMAIN call.steps[k].diffs :
           /\ call.steps[k].logged[i].field_name = call.steps[k].diffs[i]
           /\ call.steps[k].resolver_calls[i].resource_id
                  = call.data[k][NatKey(call.type)]
           /\ call.steps[k].logged[i].changed_by
                  \in Answers(call.type, call.steps[k].resolver_calls[i])
           /\ \E j \in DOMAIN changeLog :
                  changeLog[j] = call.steps[k].logged[i]

\* The second argument of the resolver call is the name of the column.
CalledWithFieldName(k) ==
    \A i \in DOMAIN call.steps[k].diffs :
        /\ call.steps[k].resolver_calls[i].second = "field_name"
        /\ call.steps[k].resolver_calls[i].field_name = call.steps[k].diffs[i]

\* The second argument of the resolver call is the time of the call.
CalledWithTime(k) ==
    \A i \in DOMAIN call.steps[k].diffs :
        /\ call.steps[k].resolver_calls[i].second = "datetime.now()"
        /\ call.steps[k].resolver_calls[i].update_date = now

\* C30 as stated: in the EKS, Lambda and Athena reconcile functions the
\* resolver is called with (resource id, field name) for every differing
\* column and the entry with its answer is written before the UPDATE of the
\* row, so before the commit.
C30_AttributedByFieldBeforeUpdate ==
    (call.fn = "reconcile" /\ call.type \in Attributed) =>
        \A k \in DOMAIN call.steps :
            ReachedUpdate(call.steps[k]) =>
                LoggedBeforeUpdate(k) /\ CalledWithFieldName(k)

\* C30, amended: the EKS and Lambda functions call the resolver with
\* (resource id, field name), the Athena function with (query id, time of
\* the call); for every differing column the entry with the answer is
\* written before the UPDATE of the row, so before the commit: it is in the
\* change log whether the UPDATE was executed or raised.
C30_AttributedBeforeUpdate ==
    (call.fn = "reconcile" /\ call.type \in Attributed) =>
        \A k \in DOMAIN call.steps :
            ReachedUpdate(call.steps[k]) =>
                /\ LoggedBeforeUpdate(k)
                /\ call.type # "ATHENA" => CalledWithFieldName(k)
                /\ call.type = "ATHENA" => CalledWithTime(k)

\* The UPDATE of an Athena row raised: nothing was committed, and the entry
\* of the differing column is in the change log with the answer of the
\* resolver, which was called with the time of the call.
C30_Witness ==
    /\ Raised
    /\ call.type = "ATHENA"
    /\ call.steps[Len(call.steps)].diffs # <<>>
    /\ LoggedBeforeUpdate(Len(call.steps))
    /\ CalledWithTime(Len(call.steps))
    /\ changeLog = call.steps[Len(call.steps)].logged
    /\ tables[call.type] = call.before

(***************************************************************************)
(* The identity-change branch.                                             *)
(***************************************************************************)
\* C31: in every reconcile function a snapshot whose key is found in the
\* mapping loaded from the table does not take the identity-change branch:
\* it goes on to the comparison of its fields and no row is inserted for it.
C31_IdentityBranchUnreachable ==
    call.fn = "reconcile" =>
        \A k \in DOMAIN call.steps :
            /\ call.steps[k].kind # "identity_insert"
            /\ KeyOfSnap(call.type, call.data[k])
                   \in {KeyOfRow(call.type, r) : r \in DOMAIN call.before}
               => BagSize(call.steps[k].post) = BagSize(call.steps[k].pre)

(***************************************************************************)
(* One snapshot against a stored table, both compared columns of the       *)
(* resource type taking two values: a stored row can differ from its       *)
(* snapshot in none, one or two columns.                                   *)
(***************************************************************************)
WideSnapshots(T) ==
    CASE T = "RDS" ->
             [DbInstanceId : {W("db-1")}, AccountID : Accounts,
              EngineType : {W("postgres"), W("mysql")},
              Status : {W("available"), W("stopped")},
              Region : {W("us-east-1")}]
      [] T = "ATHENA" ->
             [QueryId : {W("q-1")}, AccountID : Accounts,
              Description : {W("select 1"), W("select 2")},
              Owner : {W("primary"), W("adhoc")},
              Region : {W("us-east-1")}]
      [] T = "EKS" ->
             [ClusterName : {W("c-1")}, AccountID : Accounts,
              Status : {W("ACTIVE"), W("UPDATING")},
              Addons : {PyList(<<<<"a">>, <<"b">>>>), PyList(<<<<"a">>>>)}]
      [] T = "LAMBDA" ->
             [FunctionName : {W("f-1")}, AccountID : Accounts,
              Runtime : {W("python3.9"), W("python3.12")},
              MemorySize : {PyInt(<<"128">>), PyInt(<<"256">>)},
              Region : {W("us-east-1")}]

InitUpdate ==
    /\ \E T \in Types :
          \E B \in BagsUpTo({RowOf(T, s, 0) : s \in WideSnapshots(T)}, MaxRows) :
              tables = [U \in Types |-> IF U = T THEN B ELSE NoRows]
    /\ changeLog = <<>>
    /\ events = StoredEvents
    /\ now = MaxNow - 1
    /\ call = NoCall
    /\ resolved = NoResolve
    /\ cmp = NoCmp
    /\ run = NoRun
    /\ conns = NoConns
    /\ fetched = NoFetch

\* One call of the reconcile function of T with one snapshot.
ReconcileOne(T) ==
    /\ now < MaxNow
    /\ OnlyStored(T)
    /\ \E s \in WideSnapshots(T), resConn \in BOOLEAN, failAt \in 0..1,
          existing \in ExistingMaps(T, tables[T]) :
          Effect(T, ReconcileOutcome(T, <<s>>, TRUE,
                     [evs |-> events, ts |-> now + 1, resConn |-> resConn,
                      failAt |-> failAt],
                     existing, tables[T], changeLog), resConn)
    /\ now' = now + 1
    /\ UNCHANGED <<events, resolved, cmp, run, fetched>>

NextUpdate ==
    \/ ReconcileOne("RDS")
    \/ ReconcileOne("ATHENA")
    \/ ReconcileOne("EKS")
    \/ ReconcileOne("LAMBDA")

SpecUpdate == InitUpdate /\ [][NextUpdate]_vars

\* The compared columns outside the identity key in which the row differs
\* from the snapshot.
Differing(T, row, s) ==
    {c \in ColNames(T) \ {NatCol(T), AcctCol(T)} :
        ~FieldEqual(T, row[c], s[SnapKeyOf(T, c)])}

\* The row is the stored row after one UPDATE that set the columns cols to
\* the values of the snapshot and refreshed last_updated.
UpdatedFrom(T, row, old, s, cols) ==
    /\ \A c \in ColNames(T) :
           row[c] = IF c \in cols THEN s[SnapKeyOf(T, c)] ELSE old[c]
    /\ row["last_updated"] = now
    /\ row["last_updated"] # old["last_updated"]

\* The last call was a committed call of one snapshot whose key is stored
\* once, in a row that differs from it in some column.
UpdateCase(T, old) ==
    /\ Succeeded
    /\ call.type = T
    /\ Len(call.data) = 1
    /\ old \in DOMAIN call.before
    /\ KeyOfRow(T, old) = KeyOfSnap(T, call.data[1])
    /\ CountKey(T, call.before, KeyOfRow(T, old)) = 1
    /\ Differing(T, old, call.data[1]) # {}

\* The call made one UPDATE for the k differing columns of the stored row.
OneUpdate(T, old) ==
    /\ call.steps[1].kind = "update"
    /\ call.result.updated = 1
    /\ call.result.inserted = 0
    /\ BagSize(tables[T]) = BagSize(call.before)
    /\ {call.steps[1].diffs[i] : i \in DOMAIN call.steps[1].diffs}
           = Differing(T, old, call.data[1])
    /\ \E row \in DOMAIN tables[T] :
           /\ KeyOfRow(T, row) = KeyOfRow(T, old)
           /\ UpdatedFrom(T, row, old, call.data[1],
                          Differing(T, old, call.data[1]))

\* C32: for a stored row with k >= 1 differing columns outside its key, the
\* call issues one UPDATE that sets those k columns to the values of the
\* snapshot and refreshes last_updated, leaves the other columns of the row
\* as they were, and counts updated = 1 whatever k is.
C32_OneUpdatePerRow ==
    \A T \in Types :
        \A old \in (IF call.fn = "reconcile" THEN DOMAIN call.before ELSE {}) :
            (call.fn = "reconcile" /\ UpdateCase(T, old)) => OneUpdate(T, old)

\* The same for the Athena, EKS and Lambda functions only.
UpdatesOutsideRds ==
    \A T \in Types \ {"RDS"} :
        \A old \in (IF call.fn = "reconcile" THEN DOMAIN call.before ELSE {}) :
            (call.fn = "reconcile" /\ UpdateCase(T, old)) => OneUpdate(T, old)

\* An update of two columns at once.
TwoColumnsUpdated ==
    \E T \in Types \ {"RDS"} :
        \E old \in (IF call.fn = "reconcile" THEN DOMAIN call.before ELSE {}) :
            /\ call.fn = "reconcile"
            /\ UpdateCase(T, old)
            /\ Cardinality(Differing(T, old, call.data[1])) = 2
            /\ OneUpdate(T, old)

(***************************************************************************)
(* The rows an UPDATE reaches.                                             *)
(***************************************************************************)
\* The rows of B stored under another key than that of snapshot s.
OtherKeys(T, B, s) == {r \in DOMAIN B : KeyOfRow(T, r) # KeyOfSnap(T, s)}

\* Pass st for snapshot s leaves every row of another key as it was.
KeepsOtherKeys(T, st, s) ==
    \A r \in OtherKeys(T, st.pre, s) :
        r \in DOMAIN st.post /\ st.post[r] = st.pre[r]

UpdateKeepsOtherKeys(T) ==
    (call.fn = "reconcile" /\ call.type = T) =>
        \A k \in DOMAIN call.steps :
            call.steps[k].kind = "update"
                => KeepsOtherKeys(T, call.steps[k], call.data[k])

\* C33: an update triggered by a snapshot with key (natural id, account id)
\* modifies only the stored row with that key; a row with the same natural
\* id under another account is left unchanged.
C33_UpdateOnlyKeyedRow == \A T \in Types : UpdateKeepsOtherKeys(T)

\* The same for Athena alone, whose WHERE clause names both key columns.
AthenaUpdateOnlyKeyedRow == UpdateKeepsOtherKeys("ATHENA")

\* An Athena update made while a row of the other account is stored.
AthenaUpdateBesideOtherAccount ==
    /\ call.fn = "reconcile" /\ call.type = "ATHENA"
    /\ \E k \in DOMAIN call.steps :
          /\ call.steps[k].kind = "update"
          /\ OtherKeys("ATHENA", call.steps[k].pre, call.data[k]) # {}

(***************************************************************************)
(* A reconcile call repeated at once: the table of one of EKS, Lambda,     *)
(* Athena holds up to MaxRows rows, one call is made, and the same list is *)
(* handed to the same function again.                                      *)
(***************************************************************************)
InitRepeat ==
    /\ \E T \in Types \ {"RDS"} : \E B \in StoredTables(T) :
          tables = [U \in Types |-> IF U = T THEN B ELSE NoRows]
    /\ changeLog = <<>>
    /\ events = StoredEvents
    /\ now = 0
    /\ call = NoCall
    /\ resolved = NoResolve
    /\ cmp = NoCmp
    /\ run = NoRun
    /\ conns = NoConns
    /\ fetched = NoFetch

\* The first call of the two.
FirstCall(T) == call = NoCall /\ OnlyStored(T) /\ Reconcile(T)

\* The function is called again with the list of the call before.
RepeatCall ==
    /\ call.fn = "reconcile"
    /\ now < MaxNow
    /\ \E connOk \in BOOLEAN, resConn \in BOOLEAN, failAt \in 0..MaxBatch,
          existing \in ExistingMaps(call.type, tables[call.type]) :
          /\ failAt <= Len(call.data)
          /\ ~connOk => (failAt = 0 /\ resConn)
          /\ Effect(call.type,
                    ReconcileOutcome(call.type, call.data, connOk,
                        [evs |-> events, ts |-> now + 1, resConn |-> resConn,
                         failAt |-> failAt],
                        existing, tables[call.type], changeLog), resConn)
    /\ now' = now + 1
    /\ UNCHANGED <<events, resolved, cmp, run, fetched>>

NextRepeat ==
    \/ FirstCall("ATHENA")
    \/ FirstCall("EKS")
    \/ FirstCall("LAMBDA")
    \/ RepeatCall

SpecRepeat == InitRepeat /\ [][NextRepeat]_vars

\* The rows of B without their last_updated.
WithoutStamp(B) ==
    BagImage(B, [r \in DOMAIN B |->
                    [c \in DOMAIN r \ {"last_updated"} |-> r[c]]])

\* This step is the repeat, for type T, of a successful call on a non-empty
\* list with pairwise distinct keys.
RepeatsSuccess(T) ==
    /\ call.fn = "reconcile" /\ call.type = T
    /\ call.conn /\ ~call.result.error
    /\ call.data # <<>> /\ DistinctKeys(T, call.data)
    /\ call'.fn = "reconcile" /\ call'.type = T /\ call'.data = call.data
    /\ now' = now + 1

\* The repeat inserted no row, wrote no entry and changed no column other
\* than last_updated.
Converged(T) ==
    /\ call'.result.inserted = 0
    /\ \A k \in DOMAIN call'.steps : call'.steps[k].inserted = 0
    /\ call'.logged = <<>> /\ changeLog' = changeLog
    /\ WithoutStamp(tables'[T]) = WithoutStamp(tables[T])

\* C34: for EKS, Lambda and Athena, after a successful reconcile of a list
\* with pairwise distinct keys, the same list reconciled again at once
\* inserts no row, writes no ChangeLogEntry and changes no column other than
\* last_updated.
C34_RepeatConverges ==
    [][\A T \in Types \ {"RDS"} : RepeatsSuccess(T) => Converged(T)]_vars

\* The same where every stored key has one row: for the three types, for
\* Athena alone, and for tables and lists of one account.
RepeatConvergesOnUniqueKeys ==
    [][\A T \in Types \ {"RDS"} :
          (RepeatsSuccess(T) /\ UniqueKeys(T, call.before)) => Converged(T)]_vars

AthenaRepeatConverges ==
    [][(RepeatsSuccess("ATHENA") /\ UniqueKeys("ATHENA", call.before))
          => Converged("ATHENA")]_vars

OneAccount(T, B, data) ==
    /\ \A r, q \in DOMAIN B : r[AcctCol(T)] = q[AcctCol(T)]
    /\ \A i, j \in DOMAIN data : data[i]["AccountID"] = data[j]["AccountID"]

RepeatConvergesInOneAccount ==
    [][\A T \in Types \ {"RDS"} :
          (RepeatsSuccess(T) /\ UniqueKeys(T, call.before)
             /\ OneAccount(T, call.before, call.data))
          => Converged(T)]_vars

\* A repeat of a successful Athena call that had updated a stored row.
AthenaRepeated ==
    /\ now = MaxNow /\ call.fn = "reconcile" /\ call.type = "ATHENA"
    /\ call.conn /\ ~call.result.error /\ call.result.updated > 0
    /\ call.logged = <<>>

(***************************************************************************)
(* One key twice in one list.                                              *)
(***************************************************************************)
\* Snapshots i < j of the call carry one key, which no stored row had.
TwiceAbsent(i, j) ==
    /\ i < j
    /\ KeyOfSnap(call.type, call.data[i]) = KeyOfSnap(call.type, call.data[j])
    /\ RowsWithKey(call.type, call.before,
                   KeyOfSnap(call.type, call.data[i])) = {}

\* C35: when two snapshots of one call carry the same key and no row is
\* stored under it, the call stores only one row under that key.
C35_DuplicateKeyStoredOnce ==
    (call.fn = "reconcile" /\ call.conn /\ ~call.result.error) =>
        \A i, j \in DOMAIN call.data :
            TwiceAbsent(i, j)
                => CountKey(call.type, tables[call.type],
                            KeyOfSnap(call.type, call.data[i])) = 1

(***************************************************************************)
(* Entries of a call that is rolled back.                                  *)
(***************************************************************************)
\* This step is a reconcile call that failed and was rolled back.
RolledBack == call'.fn = "reconcile" /\ call'.conn /\ call'.result.error

\* C36: every ChangeLogEntry corresponds to a committed update: when a
\* reconcile call fails after detecting differences and rolls back, no entry
\* written during that call remains in the change log.
C36_NoEntryOfRolledBackCall == [][RolledBack => changeLog' = changeLog]_vars

\* The rows of a rolled back call are as before the call.
RowsOfRolledBackCall == [][RolledBack => tables' = tables]_vars

(***************************************************************************)
(* The records the insert functions are handed in a run.                   *)
(***************************************************************************)
\* The unit of account u returned a result without "error".
UnitSucceeded(u) == run.units[u].role = "ok" /\ run.errors[u] = <<>>

\* The unit of account u returned records for the service.
Returned(u, service) ==
    UnitSucceeded(u) /\ run.units[u].out[service] = "records"

\* The insert function of the service, as the call records name it.
InsertFnOf(service) == IF service = "rds" THEN "reconcile" ELSE "cloudtrail"

\* The records of unit u for the service were handed to the service's
\* insert function in one call, whole, and to no other call.
PassedOnce(u, service) ==
    /\ Cardinality(CallsFor(u, service)) = 1
    /\ \A k \in CallsFor(u, service) :
          /\ run.results[k].fn = InsertFnOf(service)
          /\ run.results[k].data = UnitRecords(service, u)
    /\ \A k \in DOMAIN run.results \ CallsFor(u, service) :
          \A i \in DOMAIN run.results[k].data :
              \A j \in DOMAIN UnitRecords(service, u) :
                  run.results[k].data[i] # UnitRecords(service, u)[j]

AllPassedOnce ==
    \A u \in Accounts : \A service \in {"rds", "cloudtrail"} :
        Returned(u, service) => PassedOnce(u, service)

\* C37: in both orchestrators, every record returned by a successful unit
\* for a requested service is passed to that service's insert function
\* exactly once, in the group of its own (region, credential set): none is
\* dropped, duplicated or handed to another service's insert function.
C37_EveryRecordPassedOnce == OrchEnded => AllPassedOnce

\* The same for script.main alone.
MainPassesEveryRecordOnce ==
    (OrchEnded /\ run.handler = "main") => AllPassedOnce

\* A run of main in which both units returned records for both services.
MainPassedFourGroups ==
    /\ run.pc = "done" /\ run.handler = "main"
    /\ \A u \in Accounts : \A service \in {"rds", "cloudtrail"} :
          Returned(u, service)
    /\ Len(run.results) = 4

(***************************************************************************)
(* The counters a reconcile call returns.                                  *)
(***************************************************************************)
\* What pass k added to inserted and to updated.
InsertedBy(k) == call.steps[k].inserted - InsertedBefore(k)
UpdatedBy(k) == call.steps[k].updated - UpdatedBefore(k)

\* The counters of a call that returned no error.
SuccessCounts ==
    /\ call.result.processed = Len(call.data)
    /\ call.result.inserted + call.result.updated <= call.result.processed
    /\ Len(call.steps) = Len(call.data)
    /\ \A k \in DOMAIN call.steps :
          /\ InsertedBy(k) \in 0..1 /\ UpdatedBy(k) \in 0..1
          /\ InsertedBy(k) + UpdatedBy(k) <= 1
    /\ call.data # <<>> =>
          /\ call.result.inserted = call.steps[Len(call.steps)].inserted
          /\ call.result.updated = call.steps[Len(call.steps)].updated

\* The counters of a call that returned an error.
FailureCounts ==
    /\ call.result.processed = 0
    /\ call.result.inserted = 0
    /\ call.result.updated = 0

\* C38: a successful call of a reconcile function returns processed equal
\* to the number of snapshots passed in and inserted + updated <= processed,
\* each snapshot adding to at most one of inserted and updated; a failed
\* call returns processed = inserted = updated = 0.
C38_CountersOfCall ==
    call.fn = "reconcile" =>
        IF call.result.error THEN FailureCounts ELSE SuccessCounts

\* A successful call on two snapshots, one inserted and one left alone.
C38_Witness ==
    /\ call.fn = "reconcile" /\ call.conn /\ ~call.result.error
    /\ Len(call.data) = 2
    /\ call.result.processed = 2
    /\ call.result.inserted = 1
    /\ call.result.updated = 0

\* A call that failed at its second snapshot, after a first one was counted.
FailedAfterCounting ==
    /\ call.fn = "reconcile" /\ call.conn /\ call.result.error
    /\ Len(call.steps) = 2
    /\ call.steps[1].inserted + call.steps[1].updated = 1

(***************************************************************************)
(* The inserted count of insert_or_update_cloudtrail_events.               *)
(***************************************************************************)
\* C39: insert_or_update_cloudtrail_events returns an inserted count equal
\* to the number of rows the call added to cloudtrail_events: an event
\* whose event_id was already stored is not counted.
C39_InsertedCountsRowsAdded ==
    (call.fn = "cloudtrail" /\ call.conn /\ ~call.result.error) =>
        call.result.inserted = BagSize(events) - BagSize(call.before)

\* The count is the number of events whose INSERT statement did not raise.
InsertedCountsStatements ==
    (call.fn = "cloudtrail" /\ call.conn /\ ~call.result.error) =>
        /\ call.result.inserted >= BagSize(events) - BagSize(call.before)
        /\ call.result.inserted <= Len(call.data)

====
